---- MODULE Spec2Model ----
(***************************************************************************)
(* Cache-or-compute resolver of the dashboard backend                      *)
(* (backend/services/resolver.py), the batch processor that writes the     *)
(* same cache tables (backend/utils/batch_utils.py) and the storage        *)
(* statements both issue through backend/db.py.                            *)
(*                                                                         *)
(* A cache table is a set of rows; a statement is atomic (db.py runs one   *)
(* statement per execute/fetchone call); resolve is a sequence of          *)
(* statements, so concurrent callers interleave between its steps.         *)
(***************************************************************************)
EXTENDS Integers, Sequences, FiniteSets, TLC

\* ------------------------------------------------------------------ bounds
MaxClock == 2
MaxCalls == 2

\* ------------------------------------------------------------- input sets
Callers == {"c1", "c2"}
DatasetArgs == {"issues", "products"}
FuncArgs == {"ai_taxonomy", "similar_issues", "similar_controls"}
IdArgs == {"r1", "r2"}
IdListArgs == {<<"r1">>, <<"r2", "r1">>}
Payloads == {"p1", "p2"}
ExcTypes == {"ValueError", "KeyError"}
Backends == {"sqlite", "postgres"}
None == "None"
NoTime == -1
\* ids=None of batch_compute_ai_function: every id of the raw table
AllIds == <<None>>

\* ------------------------------------------------- static configuration
function_map ==
    [ds \in {"controls", "external_loss", "internal_loss", "issues"} |->
        CASE ds = "controls" ->
                {"ai_taxonomy", "ai_root_causes", "ai_enrichment", "similar_controls"}
          [] ds = "external_loss" ->
                {"ai_taxonomy", "ai_root_causes", "ai_enrichment", "similar_external_loss"}
          [] ds = "internal_loss" ->
                {"ai_taxonomy", "ai_root_causes", "ai_enrichment", "similar_internal_loss"}
          [] ds = "issues" ->
                {"ai_taxonomy", "ai_root_causes", "ai_enrichment", "similar_issues"}]

\* the first function clear_cache visits when no function is given
\* (list(self.function_map[dataset].keys())[0])
first_function == "ai_taxonomy"

\* f"{dataset}_{func}": the cache table of a (dataset, function) pair
TableName(ds, fn) == <<ds, fn>>

Tables == UNION {{TableName(ds, fn) : fn \in function_map[ds]} : ds \in DOMAIN function_map}

\* json.dumps / json.loads of a payload: the stored column is the JSON text
json_dumps(p) == <<"json", p>>
json_loads(s) == s[2]

VARIABLES
    backend,    \* Database.backend, fixed by init_db
    raw,        \* raw[ds]: ids present in {ds}_raw
    cache,      \* cache[table]: set of rows [id, payload, created_at]
    clock,      \* what datetime.utcnow() returns now
    call,       \* call[c]: the operation caller c is in, its locals and its outcome
    batch,      \* the BatchProcessor run in progress, its queue and its tally
    lastStore,  \* who issued the latest successful cache write of a resolve
    ncalls,     \* operations started so far
    reader,     \* the get_all_results call in progress and the mapping it builds
    bulk,       \* the run_bulk_process run in progress with its CacheManager
    fs,         \* the progress file and its temporary sibling on disk
    dbinit,     \* Database.init_db: where it is and what it has set up
    dbops,      \* the embedded connection, its lock, and the callers of the Database
    adapter,    \* the latest query handed to _adapt_query_for_postgres and its result
    pool,       \* the chunks of a batch run: their ids, their workers' tallies
    stub,       \* the random module's generator and the stub compute calls under way
    single      \* the module globals _db_instance and _resolver_instance, and their callers

vars == <<backend, raw, cache, clock, call, batch, lastStore, ncalls, reader, bulk, fs, dbinit,
          dbops, adapter, pool, stub, single>>

\* --------------------------------------------------------- result values
NoError == [type |-> None, msg |-> None]
Err(type, msg) == [type |-> type, msg |-> msg]

NoResult ==
    [status |-> "none", source |-> None, payload |-> None,
     created_at |-> NoTime, count |-> -1, error |-> NoError]

OkResult(source, payload, created_at) ==
    [status |-> "ok", source |-> source, payload |-> payload,
     created_at |-> created_at, count |-> -1, error |-> NoError]

CountResult(n) ==
    [status |-> "ok", source |-> None, payload |-> None,
     created_at |-> NoTime, count |-> n, error |-> NoError]

ErrResult(e) ==
    [status |-> "error", source |-> None, payload |-> None,
     created_at |-> NoTime, count |-> -1, error |-> e]

IdleCall ==
    [op |-> "none", pc |-> "idle", dataset |-> None, func |-> None, id |-> None,
     refresh |-> FALSE, payload |-> None, created_at |-> NoTime,
     raw_result |-> None, stored |-> FALSE,
     nCompute |-> 0, nReads |-> 0, nWrites |-> 0, after |-> {},
     result |-> NoResult]

IdleBatch ==
    [pc |-> "idle", dataset |-> None, func |-> None, force |-> FALSE,
     queue |-> <<>>, total |-> 0, processed |-> 0, successful |-> 0,
     failed |-> 0, errors |-> <<>>, status |-> None,
     had_entry |-> {}]   \* ids that had a row in the table when the run looked

\* ------------------------------------------------------ storage statements
\* rows of a table; a table the schema does not have holds nothing
Rows(t) == IF t \in DOMAIN cache THEN cache[t] ELSE {}

\* SELECT payload, created_at FROM {table} WHERE {key_field} = ?
SelectById(t, id) == {r \in Rows(t) : r.id = id}

\* a plain INSERT that keeps the row already stored under the id
InsertOrReplace_Append(rows, row) == rows \cup {row}

\* INSERT OR REPLACE INTO {table} ({key_field}, payload, created_at) VALUES (?, ?, ?)
InsertOrReplace(rows, row) == {r \in rows : r.id # row.id} \cup {row}

\* DELETE FROM {table} [WHERE {key_field} = ?]
DeleteFrom(rows, id) == IF id = None THEN {} ELSE {r \in rows : r.id # id}

\* the statement can be carried out: the table exists, and on the
\* client/server backend the declared foreign key to the raw table holds
CanStore(t, ds, id) ==
    /\ t \in DOMAIN cache
    /\ backend = "postgres" => id \in raw[ds]


\* ------------------------------------------------------------- resolve
\* datetime.utcnow().isoformat() + 'Z'
UtcNow == clock

\* the function check left out
ValidateArgs_NoFuncCheck(ds, fn) ==
    IF ds \notin DOMAIN function_map THEN Err("ValueError", "invalid_dataset")
    ELSE NoError

\* resolver.py 75-80: the two argument checks, in order
ValidateArgs(ds, fn) ==
    IF ds \notin DOMAIN function_map THEN Err("ValueError", "invalid_dataset")
    ELSE IF fn \notin function_map[ds] THEN Err("ValueError", "invalid_function")
    ELSE NoError

\* a cache row of the dataset taken as proof that the record exists
RawRowFound_CacheMasks(ds, id) ==
    /\ ds \in DOMAIN raw
    /\ \/ id \in raw[ds]
       \/ \E t \in DOMAIN cache : t[1] = ds /\ SelectById(t, id) # {}

\* resolver.py 86-88: the raw row of the id, if any
RawRowFound(ds, id) == ds \in DOMAIN raw /\ id \in raw[ds]

\* a hit that stamps the result with the time of the call
CacheHitResult_Restamp(row) == OkResult("cache", json_loads(row.payload), UtcNow)

\* resolver.py 102-107 with 148-153: what a cache hit returns
CacheHitResult(row) == OkResult("cache", json_loads(row.payload), row.created_at)

\* the exception of the compute function let through as it is
ComputeFailure_Reraise(exc) == Err(exc, "failed_to_compute")

\* resolver.py 125-127: every exception of the compute step is re-raised
\* as RuntimeError("Failed to compute ...")
ComputeFailure(exc) == Err("RuntimeError", "failed_to_compute")

\* the caller enters resolve; the argument checks run before anything else
ResolveStart(c, ds, fn, id, refresh) ==
    /\ call[c].pc \in {"idle", "done"}
    /\ ncalls < MaxCalls
    /\ ncalls' = ncalls + 1
    /\ LET started == [IdleCall EXCEPT !.op = "resolve", !.dataset = ds, !.func = fn,
                                       !.id = id, !.refresh = refresh,
                                       !.after = {d \in DOMAIN call \ {c} : call[d].pc = "done"}]
           e == ValidateArgs(ds, fn)
       IN  call' = [call EXCEPT ![c] =
                IF e # NoError
                THEN [started EXCEPT !.pc = "done", !.result = ErrResult(e)]
                ELSE [started EXCEPT !.pc = "raw"]]
    /\ UNCHANGED <<backend, raw, cache, clock, batch, lastStore>>
    /\ UNCHANGED <<reader, bulk, fs, dbinit>>
    /\ UNCHANGED <<dbops, adapter, pool, stub, single>>

\* resolver.py 84-96: the raw lookup decides not-found before the cache is read
FetchRaw(c) ==
    /\ call[c].pc = "raw"
    /\ LET cur == [call[c] EXCEPT !.nReads = @ + 1]
       IN  call' = [call EXCEPT ![c] =
                IF ~RawRowFound(cur.dataset, cur.id)
                THEN [cur EXCEPT !.pc = "done",
                                 !.result = ErrResult(Err("ValueError", "id_not_found"))]
                ELSE [cur EXCEPT !.raw_result = "row",
                                 !.pc = IF cur.refresh THEN "compute" ELSE "cache"]]
    /\ UNCHANGED <<backend, raw, cache, clock, batch, lastStore, ncalls>>
    /\ UNCHANGED <<reader, bulk, fs, dbinit>>
    /\ UNCHANGED <<dbops, adapter, pool, stub, single>>

\* resolver.py 98-107 and _get_cached_result 129-155
CheckCache(c) ==
    /\ call[c].pc = "cache"
    /\ LET cur == [call[c] EXCEPT !.nReads = @ + 1]
           hit == SelectById(TableName(cur.dataset, cur.func), cur.id)
       IN  call' = [call EXCEPT ![c] =
                IF hit # {}
                THEN [cur EXCEPT !.pc = "done",
                                 !.result = CacheHitResult(CHOOSE r \in hit : TRUE)]
                ELSE [cur EXCEPT !.pc = "compute"]]
    /\ UNCHANGED <<backend, raw, cache, clock, batch, lastStore, ncalls>>
    /\ UNCHANGED <<reader, bulk, fs, dbinit>>
    /\ UNCHANGED <<dbops, adapter, pool, stub, single>>

\* resolver.py 110-115: the compute function returns a payload, which is
\* stamped with the current time
ComputeOk(c, p) ==
    /\ call[c].pc = "compute"
    /\ call' = [call EXCEPT ![c] =
            [@ EXCEPT !.pc = "store", !.nCompute = @ + 1,
                      !.payload = p, !.created_at = UtcNow]]
    /\ UNCHANGED <<backend, raw, cache, clock, batch, lastStore, ncalls>>
    /\ UNCHANGED <<reader, bulk, fs, dbinit>>
    /\ UNCHANGED <<dbops, adapter, pool, stub, single>>

\* resolver.py 110-112, 125-127: the compute function raises
ComputeRaises(c, exc) ==
    /\ call[c].pc = "compute"
    /\ call' = [call EXCEPT ![c] =
            [@ EXCEPT !.pc = "done", !.nCompute = @ + 1,
                      !.result = ErrResult(ComputeFailure(exc))]]
    /\ UNCHANGED <<backend, raw, cache, clock, batch, lastStore, ncalls>>
    /\ UNCHANGED <<reader, bulk, fs, dbinit>>
    /\ UNCHANGED <<dbops, adapter, pool, stub, single>>


\* resolver.py 118-123: what resolve returns once _store_result has returned
ComputedResult(cur) == OkResult("computed", cur.payload, cur.created_at)

\* resolver.py 116-123 with _store_result 157-188: the upsert is issued; when
\* the statement raises, _store_result logs and returns False, which resolve
\* does not look at
Store(c, ok) ==
    /\ call[c].pc = "store"
    /\ LET cur == call[c]
           t == TableName(cur.dataset, cur.func)
           row == [id |-> cur.id, payload |-> json_dumps(cur.payload),
                   created_at |-> cur.created_at]
       IN  /\ ok => CanStore(t, cur.dataset, cur.id)
           /\ cache' = IF ok THEN [cache EXCEPT ![t] = InsertOrReplace(@, row)] ELSE cache
           /\ lastStore' = IF ok THEN [by |-> c, table |-> t, id |-> cur.id] ELSE lastStore
           /\ call' = [call EXCEPT ![c] =
                    [cur EXCEPT !.pc = "done", !.nWrites = @ + 1, !.stored = ok,
                                !.result = ComputedResult(cur)]]
    /\ UNCHANGED <<backend, raw, clock, batch, ncalls>>
    /\ UNCHANGED <<reader, bulk, fs, dbinit>>
    /\ UNCHANGED <<dbops, adapter, pool, stub, single>>

\* ---------------------------------------------------------- clear_cache
\* rows a DELETE of clear_cache matches in one table
Matched(t, id) == IF id = None THEN Rows(t) ELSE SelectById(t, id)

\* resolver.py 217-257.  The embedded backend's cursor has no rowcount
\* attribute, so there the loop stops with AttributeError after its first
\* DELETE; the client/server wrapper (_PGCursorResult) carries the count.
ClearCache(c, ds, fn, id) ==
    /\ call[c].pc \in {"idle", "done"}
    /\ ncalls < MaxCalls
    /\ ncalls' = ncalls + 1
    /\ LET started == [IdleCall EXCEPT !.op = "clear_cache", !.dataset = ds,
                                       !.func = fn, !.id = id, !.pc = "done"]
           targets == IF fn # None THEN {fn} ELSE function_map[ds]
           firstFn == IF fn # None THEN fn ELSE first_function
           visited == IF backend = "postgres" THEN targets ELSE {firstFn}
           removed == UNION {{<<f, r>> : r \in Matched(TableName(ds, f), id)} : f \in targets}
       IN  IF ds \notin DOMAIN function_map
           THEN /\ call' = [call EXCEPT ![c] =
                        [started EXCEPT !.result = ErrResult(Err("ValueError", "invalid_dataset"))]]
                /\ cache' = cache
           ELSE IF TableName(ds, firstFn) \notin DOMAIN cache
           THEN /\ call' = [call EXCEPT ![c] =
                        [started EXCEPT !.nWrites = 1,
                                        !.result = ErrResult(Err("StorageError", "no_such_table"))]]
                /\ cache' = cache
           ELSE /\ cache' = [t \in DOMAIN cache |->
                        IF t[1] = ds /\ t[2] \in visited
                        THEN DeleteFrom(cache[t], id) ELSE cache[t]]
                /\ call' = [call EXCEPT ![c] =
                        [started EXCEPT !.nWrites = Cardinality(visited),
                                        !.result =
                            IF backend = "postgres"
                            THEN CountResult(Cardinality(removed))
                            ELSE ErrResult(Err("AttributeError", "rowcount"))]]
    /\ UNCHANGED <<backend, raw, clock, batch, lastStore>>
    /\ UNCHANGED <<reader, bulk, fs, dbinit>>
    /\ UNCHANGED <<dbops, adapter, pool, stub, single>>

\* ------------------------------------------------------- batch processor
SeqRange(s) == {s[i] : i \in DOMAIN s}

\* the rows of SELECT ... FROM {dataset}_raw, in any order
Orders(S) == {s \in [1..Cardinality(S) -> S] : SeqRange(s) = S}

RECURSIVE Keep(_, _)
\* [x for x in s if x in S]
Keep(s, S) ==
    IF s = <<>> THEN <<>>
    ELSE IF Head(s) \in S THEN <<Head(s)>> \o Keep(Tail(s), S)
    ELSE Keep(Tail(s), S)

\* every id scheduled, cached or not
FilterCached_KeepAll(found, cached, force) == found

\* batch_utils.py 78-87: unless force_recompute, the ids that have a row in
\* the function's table are dropped
FilterCached(found, cached, force) ==
    IF force THEN found ELSE Keep(found, SeqRange(found) \ cached)

\* the ids of the caller taken as they are
FoundIds_Unchecked(ids, all, present) == IF ids = AllIds THEN all ELSE ids

\* batch_utils.py 63-76: every id of the raw table, or those of the given
\* ids for which the raw table has a row
FoundIds(ids, all, present) == IF ids = AllIds THEN all ELSE Keep(ids, present)

\* batch_utils.py 28-107: the ids found in the raw table, less (unless
\* force_recompute) those that already have a row in the function's table
BatchStart(ds, fn, ids, force) ==
    /\ batch.pc \in {"idle", "done"}
    /\ ncalls < MaxCalls
    /\ ncalls' = ncalls + 1
    /\ IF ds \notin DOMAIN function_map
       THEN batch' = [IdleBatch EXCEPT !.pc = "done", !.dataset = ds, !.func = fn,
                                       !.force = force, !.status = "ValueError"]
       ELSE \E all \in Orders(raw[ds]) :
            LET found == FoundIds(ids, all, raw[ds])
                t == TableName(ds, fn)
                cached == {r.id : r \in Rows(t)}
                todo == FilterCached(found, cached, force)
                run == [IdleBatch EXCEPT !.dataset = ds, !.func = fn, !.force = force,
                                         !.had_entry = cached]
            IN  batch' = IF todo = <<>>
                         THEN [run EXCEPT !.pc = "done", !.status = "success"]
                         ELSE [run EXCEPT !.pc = "run", !.status = "processing",
                                          !.queue = todo, !.total = Len(todo)]
    /\ UNCHANGED <<backend, raw, cache, clock, call, lastStore>>
    /\ UNCHANGED <<reader, bulk, fs, dbinit>>
    /\ UNCHANGED <<dbops, adapter, pool, stub, single>>

\* a failure counted without its message
BatchErrors_Drop(errors, id, good) == errors

\* batch_utils.py 187-190: the message of a failed id is appended
BatchErrors(errors, id, good) == IF good THEN errors ELSE Append(errors, id)

\* batch_utils.py 150-197 (one iteration of the loop of _process_batch) and,
\* after the last id, lines 142-148
BatchItem(p, outcome) ==
    /\ batch.pc = "run"
    /\ LET id == Head(batch.queue)
           t == TableName(batch.dataset, batch.func)
           row == [id |-> id, payload |-> json_dumps(p), created_at |-> UtcNow]
           good == outcome = "ok"
           rest == Tail(batch.queue)
       IN  /\ good => CanStore(t, batch.dataset, id)
           /\ cache' = IF good THEN [cache EXCEPT ![t] = InsertOrReplace(@, row)] ELSE cache
           /\ batch' = [batch EXCEPT
                    !.queue = rest,
                    !.processed = @ + 1,
                    !.successful = IF good THEN @ + 1 ELSE @,
                    !.failed = IF good THEN @ ELSE @ + 1,
                    !.errors = BatchErrors(@, id, good),
                    !.pc = IF rest = <<>> THEN "done" ELSE "run",
                    !.status = IF rest = <<>> THEN "completed" ELSE "processing"]
    /\ UNCHANGED <<backend, raw, clock, call, lastStore, ncalls>>
    /\ UNCHANGED <<reader, bulk, fs, dbinit>>
    /\ UNCHANGED <<dbops, adapter, pool, stub, single>>

\* batch_utils.py 273-338 for one id: the raw row is deleted first, then
\* (cascade) the rows of the dataset's function tables.  The embedded
\* backend does not enforce the foreign key (db.py 166-174 sets no
\* foreign_keys pragma); the client/server backend refuses to delete a raw
\* row that a cache row references, and the exception ends that id.
BatchDelete(ds, id, cascade) ==
    /\ ncalls < MaxCalls
    /\ ncalls' = ncalls + 1
    /\ ds \in DOMAIN function_map
    /\ LET referenced == \E t \in DOMAIN cache : t[1] = ds /\ SelectById(t, id) # {}
       IN  IF backend = "postgres" /\ referenced
           THEN UNCHANGED <<raw, cache>>
           ELSE /\ raw' = [raw EXCEPT ![ds] = @ \ {id}]
                /\ cache' = [t \in DOMAIN cache |->
                        IF cascade /\ t[1] = ds THEN DeleteFrom(cache[t], id) ELSE cache[t]]
    /\ UNCHANGED <<backend, clock, call, batch, lastStore>>
    /\ UNCHANGED <<reader, bulk, fs, dbinit>>
    /\ UNCHANGED <<dbops, adapter, pool, stub, single>>

\* the wall clock moves on
Tick ==
    /\ clock < MaxClock
    /\ clock' = clock + 1
    /\ UNCHANGED <<backend, raw, cache, call, batch, lastStore, ncalls>>
    /\ UNCHANGED <<reader, bulk, fs, dbinit>>
    /\ UNCHANGED <<dbops, adapter, pool, stub, single>>

\* ------------------------------------------------------ get_all_results
\* the functions of a dataset in the order the loop of get_all_results
\* visits them (the insertion order of function_map[dataset])
function_list(ds) ==
    <<"ai_taxonomy", "ai_root_causes", "ai_enrichment",
      CHOOSE f \in function_map[ds] :
            f \notin {"ai_taxonomy", "ai_root_causes", "ai_enrichment"}>>

\* what _get_cached_result returns when the table has no row for the id
AbsentMarker == [present |-> FALSE, payload |-> None, created_at |-> NoTime]

\* resolver.py 129-155: the decoded payload and created_at of the row, or None
GetCachedResult(t, id) ==
    IF SelectById(t, id) # {}
    THEN LET r == CHOOSE r \in SelectById(t, id) : TRUE
         IN  [present |-> TRUE, payload |-> json_loads(r.payload), created_at |-> r.created_at]
    ELSE AbsentMarker

\* a mapping that leaves out the functions that have no entry
SetResult_OmitAbsent(results, func, cached) ==
    IF cached.present THEN results \cup {[func |-> func, cached |-> cached]} ELSE results

\* resolver.py 213: results[func] = cached
SetResult(results, func, cached) ==
    {e \in results : e.func # func} \cup {[func |-> func, cached |-> cached]}

IdleReader ==
    [pc |-> "idle", dataset |-> None, id |-> None, todo |-> <<>>, results |-> {},
     nCompute |-> 0, nWrites |-> 0, error |-> NoError]

\* resolver.py 204-208: the dataset check, then the empty mapping
GetAllStart(ds, id) ==
    /\ reader.pc \in {"idle", "done"}
    /\ ncalls < MaxCalls
    /\ ncalls' = ncalls + 1
    /\ reader' =
            IF ds \notin DOMAIN function_map
            THEN [IdleReader EXCEPT !.pc = "done", !.dataset = ds, !.id = id,
                                    !.error = Err("ValueError", "invalid_dataset")]
            ELSE [IdleReader EXCEPT !.pc = "loop", !.dataset = ds, !.id = id,
                                    !.todo = function_list(ds)]
    /\ UNCHANGED <<backend, raw, cache, clock, call, batch, lastStore>>
    /\ UNCHANGED <<bulk, fs, dbinit>>
    /\ UNCHANGED <<dbops, adapter, pool, stub, single>>

\* resolver.py 210-215: one iteration of the loop; after the last function
\* the mapping is returned
GetAllStep ==
    /\ reader.pc = "loop"
    /\ LET func == Head(reader.todo)
           cached == GetCachedResult(TableName(reader.dataset, func), reader.id)
           rest == Tail(reader.todo)
       IN  reader' = [reader EXCEPT !.results = SetResult(@, func, cached),
                                    !.todo = rest,
                                    !.pc = IF rest = <<>> THEN "done" ELSE "loop"]
    /\ UNCHANGED <<backend, raw, cache, clock, call, batch, lastStore, ncalls>>
    /\ UNCHANGED <<bulk, fs, dbinit>>
    /\ UNCHANGED <<dbops, adapter, pool, stub, single>>


\* ------------------------------------------- bulk CLI (cli_tool/bulk_process.py)
\* dataset_config.py 24-69: the ai_functions of each configured dataset
ai_functions ==
    [ds \in {"issues", "controls", "external_loss", "internal_loss"} |->
        IF ds = "controls"
        THEN {"controls_taxonomy", "root_cause", "enrichment", "slow_enrichment"}
        ELSE {"issue_taxonomy", "root_cause", "enrichment", "slow_enrichment"}]

\* db.py 184-311: the function tables schema creation makes
SchemaTables ==
    UNION {{TableName(ds, fn) : fn \in ai_functions[ds]} : ds \in DOMAIN ai_functions}

\* the record ids in ascending order of the key (ORDER BY, sorted())
IdOrder == <<"r1", "r2", "r3", "r4">>
sorted(S) == Keep(IdOrder, S)

\* the parameters resolve declares (resolver.py 55-62) and the keywords
\* _process_single passes to it (bulk_process.py 86-92)
resolve_parameters == {"dataset", "func", "id", "description", "refresh"}
process_single_keywords == {"dataset", "func", "id", "session_id", "refresh"}

\* what _process_single can return: a keyword resolve does not declare makes
\* the call raise TypeError before its body runs, which _process_single
\* catches (except Exception) and reports as False
ProcessSingleOutcomes ==
    IF process_single_keywords \subseteq resolve_parameters THEN BOOLEAN ELSE {FALSE}

\* ------------------------------------------------- progress file contents
NoFile ==
    [kind |-> "absent", dataset |-> None, ai_function |-> None,
     refresh |-> FALSE, processed_ids |-> <<>>]

\* a file that is not a JSON document
Unreadable == [NoFile EXCEPT !.kind = "unreadable"]

\* a file opened for writing into which nothing has been written yet
EmptyFile == [NoFile EXCEPT !.kind = "empty"]

Doc(ds, fn, refresh, ids) ==
    [kind |-> "doc", dataset |-> ds, ai_function |-> fn,
     refresh |-> refresh, processed_ids |-> ids]

\* a document of which only a prefix has reached the file
PartialDoc(d) == [d EXCEPT !.kind = "partial"]

\* self.cache_path and cache_path.with_suffix(".tmp")
cache_path == "json"

\* the document written straight to the progress file
temp_path_InPlace == cache_path

temp_path == "tmp"

\* a file trusted whatever refresh flag it was recorded under
Load_IgnoreRefresh(f, ds, fn, refresh) ==
    IF f.kind = "doc" /\ f.dataset = ds /\ f.ai_function = fn
    THEN SeqRange(f.processed_ids) ELSE {}

\* bulk_process.py 40-55: CacheManager._load
Load(f, ds, fn, refresh) ==
    IF f.kind = "doc" /\ f.dataset = ds /\ f.ai_function = fn /\ f.refresh = refresh
    THEN SeqRange(f.processed_ids) ELSE {}

\* the progress set not consulted
PendingIds_IgnoreProgress(candidates, processed) == candidates

\* bulk_process.py 135: the candidates that are not in cache.processed
PendingIds(candidates, processed) == Keep(candidates, SeqRange(candidates) \ processed)

IdleBulk ==
    [pc |-> "idle", dataset |-> None, func |-> None, refresh |-> FALSE, batch_size |-> 0,
     computed |-> {}, candidates |-> <<>>, trusted |-> {}, processed |-> {},
     pending |-> <<>>, inChunk |-> 0, attempted |-> <<>>, failures |-> <<>>,
     mode |-> None, cancel |-> FALSE, interrupted |-> FALSE, outcome |-> None]

\* a document of the ids loaded only
SaveDoc_Loaded(b) == Doc(b.dataset, b.func, b.refresh, sorted(b.trusted))

\* bulk_process.py 62-67: the document save writes
SaveDoc(b) == Doc(b.dataset, b.func, b.refresh, sorted(b.processed))

\* bulk_process.py 100-151: the argument checks, the ids of the raw table,
\* the CacheManager (which loads the progress file), the candidates, the
\* pending ids and the "nothing to process" return
BulkStart(ds, fn, refresh, size) ==
    /\ bulk.pc \in {"idle", "done", "crashed"}
    /\ ncalls < MaxCalls
    /\ ncalls' = ncalls + 1
    /\ LET run == [IdleBulk EXCEPT !.dataset = ds, !.func = fn, !.refresh = refresh,
                                   !.batch_size = size]
       IN  IF ds \notin DOMAIN ai_functions \/ fn \notin ai_functions[ds]
           THEN /\ bulk' = [run EXCEPT !.pc = "done", !.outcome = "ValueError"]
                /\ fs' = fs
           ELSE IF raw[ds] = {}
           THEN /\ bulk' = [run EXCEPT !.pc = "done", !.outcome = "no_records"]
                /\ fs' = fs
           ELSE LET all_ids == sorted(raw[ds])
                    trusted == Load(fs[cache_path], ds, fn, refresh)
                    computed == IF refresh THEN {} ELSE {r.id : r \in Rows(TableName(ds, fn))}
                    candidates == Keep(all_ids, SeqRange(all_ids) \ computed)
                    pending == PendingIds(candidates, trusted)
                    loaded == [run EXCEPT !.computed = computed, !.candidates = candidates,
                                          !.trusted = trusted, !.processed = trusted]
                IN  IF pending = <<>>
                    THEN /\ bulk' = [loaded EXCEPT !.pc = "done", !.outcome = "nothing"]
                         /\ fs' = IF trusted # {} THEN [fs EXCEPT ![cache_path] = NoFile] ELSE fs
                    ELSE /\ bulk' = [loaded EXCEPT !.pc = "loop", !.pending = pending,
                                                   !.mode = "chunk"]
                         /\ fs' = fs
    /\ UNCHANGED <<backend, raw, cache, clock, call, batch, lastStore>>
    /\ UNCHANGED <<reader, dbinit>>
    /\ UNCHANGED <<dbops, adapter, pool, stub, single>>

\* every attempted id marked
Marked_Always(processed, id, success) == processed \cup {id}

\* bulk_process.py 165-166 with 57-58: cache.mark(identifier) if success
Marked(processed, id, success) == IF success THEN processed \cup {id} ELSE processed

\* bulk_process.py 156-169 with _process_single 77-97: one id of the chunk.
\* A cancellation requested earlier is delivered at the one await that
\* suspends, the sleep that follows a resolve that returned; it is raised
\* there, before the id is marked.  After the last id of a chunk comes
\* cache.save().
BulkItem(success) ==
    /\ bulk.pc = "loop"
    /\ LET id == Head(bulk.pending)
           rest == Tail(bulk.pending)
           called == [bulk EXCEPT !.pending = rest, !.attempted = Append(@, id)]
       IN  bulk' =
            IF success /\ bulk.cancel
            THEN [called EXCEPT !.pc = "save", !.mode = "handler", !.interrupted = TRUE]
            ELSE [called EXCEPT
                    !.processed = Marked(@, id, success),
                    !.failures = IF success THEN @ ELSE Append(@, id),
                    !.inChunk = IF bulk.inChunk + 1 = bulk.batch_size \/ rest = <<>>
                                THEN 0 ELSE @ + 1,
                    !.pc = IF bulk.inChunk + 1 = bulk.batch_size \/ rest = <<>>
                           THEN "save" ELSE "loop"]
    /\ UNCHANGED <<backend, raw, cache, clock, call, batch, lastStore, ncalls>>
    /\ UNCHANGED <<reader, fs, dbinit>>
    /\ UNCHANGED <<dbops, adapter, pool, stub, single>>

\* bulk_process.py 68-69: write_text opens the temporary file, truncating it
SaveOpen ==
    /\ bulk.pc = "save"
    /\ fs' = [fs EXCEPT ![temp_path] = EmptyFile]
    /\ bulk' = [bulk EXCEPT !.pc = "write"]
    /\ UNCHANGED <<backend, raw, cache, clock, call, batch, lastStore, ncalls>>
    /\ UNCHANGED <<reader, dbinit>>
    /\ UNCHANGED <<dbops, adapter, pool, stub, single>>

\* part of the document reaches the temporary file
SaveWrite ==
    /\ bulk.pc = "write"
    /\ fs' = [fs EXCEPT ![temp_path] = PartialDoc(SaveDoc(bulk))]
    /\ bulk' = [bulk EXCEPT !.pc = "flush"]
    /\ UNCHANGED <<backend, raw, cache, clock, call, batch, lastStore, ncalls>>
    /\ UNCHANGED <<reader, dbinit>>
    /\ UNCHANGED <<dbops, adapter, pool, stub, single>>

\* the rest of the document reaches the temporary file, which is closed
SaveFlush ==
    /\ bulk.pc = "flush"
    /\ fs' = [fs EXCEPT ![temp_path] = SaveDoc(bulk)]
    /\ bulk' = [bulk EXCEPT !.pc = "replace"]
    /\ UNCHANGED <<backend, raw, cache, clock, call, batch, lastStore, ncalls>>
    /\ UNCHANGED <<reader, dbinit>>
    /\ UNCHANGED <<dbops, adapter, pool, stub, single>>

\* bulk_process.py 70: the temporary file is renamed over the progress file.
\* A save at the end of a chunk goes on with the next chunk or leaves the
\* loop; the save of the exception handler is followed by the re-raise; a
\* save called on its own returns.
SaveReplace ==
    /\ bulk.pc = "replace"
    /\ fs' = [p \in DOMAIN fs |->
                IF p = cache_path THEN fs[temp_path]
                ELSE IF p = temp_path THEN NoFile ELSE fs[p]]
    /\ bulk' =
            IF bulk.mode = "handler"
            THEN [bulk EXCEPT !.pc = "done", !.outcome = "interrupted"]
            ELSE IF bulk.mode = "save"
            THEN [bulk EXCEPT !.pc = "saved"]
            ELSE [bulk EXCEPT !.pc = IF bulk.pending = <<>> THEN "end" ELSE "loop"]
    /\ UNCHANGED <<backend, raw, cache, clock, call, batch, lastStore, ncalls>>
    /\ UNCHANGED <<reader, dbinit>>
    /\ UNCHANGED <<dbops, adapter, pool, stub, single>>

\* bulk_process.py 177-181: the report; without failures the progress file
\* is removed
BulkEnd ==
    /\ bulk.pc = "end"
    /\ IF bulk.failures # <<>>
       THEN /\ bulk' = [bulk EXCEPT !.pc = "done", !.outcome = "failures"]
            /\ fs' = fs
       ELSE /\ bulk' = [bulk EXCEPT !.pc = "done", !.outcome = "completed"]
            /\ fs' = [fs EXCEPT ![cache_path] = NoFile]
    /\ UNCHANGED <<backend, raw, cache, clock, call, batch, lastStore, ncalls>>
    /\ UNCHANGED <<reader, dbinit>>
    /\ UNCHANGED <<dbops, adapter, pool, stub, single>>

\* the user interrupts the run.  Either KeyboardInterrupt is raised where the
\* run is ("raise": inside the try of lines 154-173 the handler saves and
\* re-raises, after it the exception leaves the function), or the event
\* loop's runner cancels the task ("cancel"), and the cancellation waits
\* for the next await that suspends.
Interrupt(kind) ==
    /\ bulk.pc \in {"loop", "save", "write", "flush", "replace", "end"}
    /\ ~bulk.interrupted /\ ~bulk.cancel
    /\ bulk' =
            IF kind = "cancel" THEN [bulk EXCEPT !.cancel = TRUE]
            ELSE IF bulk.pc = "end"
            THEN [bulk EXCEPT !.interrupted = TRUE, !.pc = "done", !.outcome = "interrupted"]
            ELSE [bulk EXCEPT !.interrupted = TRUE, !.pc = "save", !.mode = "handler"]
    /\ UNCHANGED <<backend, raw, cache, clock, call, batch, lastStore, ncalls>>
    /\ UNCHANGED <<reader, fs, dbinit>>
    /\ UNCHANGED <<dbops, adapter, pool, stub, single>>

\* bulk_process.py 32-38 with 40-55: a CacheManager is constructed on the
\* path of the progress file just saved, for a configuration that is the one
\* saved ("same") or not; its processed set is what _load accepts
NewCacheManager(ds, fn, refresh) ==
    /\ bulk.pc = "saved"
    /\ bulk' = [bulk EXCEPT
            !.pc = "constructed",
            !.trusted = Load(fs[cache_path], ds, fn, refresh),
            !.outcome = IF <<ds, fn, refresh>> = <<bulk.dataset, bulk.func, bulk.refresh>>
                        THEN "same" ELSE "other"]
    /\ UNCHANGED <<backend, raw, cache, clock, call, batch, lastStore, ncalls>>
    /\ UNCHANGED <<reader, fs, dbinit>>
    /\ UNCHANGED <<dbops, adapter, pool, stub, single>>

\* the process is killed; the files stay as they are
Crash ==
    /\ bulk.pc \in {"loop", "save", "write", "flush", "replace", "end"}
    /\ bulk' = [bulk EXCEPT !.pc = "crashed"]
    /\ UNCHANGED <<backend, raw, cache, clock, call, batch, lastStore, ncalls>>
    /\ UNCHANGED <<reader, fs, dbinit>>
    /\ UNCHANGED <<dbops, adapter, pool, stub, single>>

\* ------------------------------------------------- Database.init_db (db.py)
\* values the "backend" setting can have, as written in config.yaml or in
\* the DB_BACKEND environment variable
PreferredArgs == {"postgres", " Postgres", "postgresql", "pg", "sqlite", "mysql"}

\* db.py 70-74: str(...).strip().lower()
normalise(s) == IF s = " Postgres" THEN "postgres" ELSE s

\* db.py 130-132 with 268-311: the statements of the client/server schema
\* creation, the tables dataset by dataset in the order of DATASET_CONFIG
pg_statements ==
    <<"create_schema", "set_search_path", "issues", "controls", "external_loss", "internal_loss">>

\* db.py 166-180 with 184-266: the pragmas, then the tables dataset by dataset
sqlite_statements == <<"pragmas", "issues", "controls", "external_loss", "internal_loss">>

\* ways the client/server attempt can fail
PgFailures == {"driver_missing", "connection_refused", "auth_failure", "timeout", "schema_error"}

NewDatabase ==
    [pc |-> "new", preferred |-> None, driver |-> FALSE, loop |-> FALSE, pool |-> FALSE,
     connection |-> FALSE, todo |-> <<>>, pg_schema |-> FALSE, sqlite_schema |-> FALSE,
     events |-> {}, error |-> None]

\* a Database whose init_db has returned with backend b selected
Settled(b) ==
    [NewDatabase EXCEPT !.pc = "ready", !.preferred = b,
                        !.driver = (b = "postgres"), !.loop = (b = "postgres"),
                        !.pool = (b = "postgres"), !.connection = (b = "sqlite"),
                        !.pg_schema = (b = "postgres"), !.sqlite_schema = (b = "sqlite")]

\* a schema error taken for success
SetupFailed_SchemaIgnored(outcome) == outcome \notin {"ok", "schema_error"}

\* db.py 135-144: any exception of the setup, or of waiting for it, makes ok False
SetupFailed(outcome) == outcome # "ok"

\* db.py 68-82: the preferred backend is read and normalised
InitDb(pref) ==
    /\ dbinit.pc = "new"
    /\ dbinit' = [dbinit EXCEPT
            !.preferred = pref,
            !.pc = IF normalise(pref) \in {"postgres", "postgresql", "pg"}
                   THEN "pg_import" ELSE "sqlite_connect"]
    /\ UNCHANGED <<backend, raw, cache, clock, call, batch, lastStore, ncalls>>
    /\ UNCHANGED <<reader, bulk, fs>>
    /\ UNCHANGED <<dbops, adapter, pool, stub, single>>

\* db.py 86-114: the driver import; without the driver _init_postgres
\* returns False at once, with it the event loop thread is started
PgImport(ok) ==
    /\ dbinit.pc = "pg_import"
    /\ dbinit' =
            IF ok
            THEN [dbinit EXCEPT !.driver = TRUE, !.loop = TRUE, !.pc = "pg_connect"]
            ELSE [dbinit EXCEPT !.events = @ \cup {"driver_missing"}, !.pc = "sqlite_connect"]
    /\ UNCHANGED <<backend, raw, cache, clock, call, batch, lastStore, ncalls>>
    /\ UNCHANGED <<reader, bulk, fs>>
    /\ UNCHANGED <<dbops, adapter, pool, stub, single>>

\* db.py 118-126 and 139-144: create_pool
PgConnect(outcome) ==
    /\ dbinit.pc = "pg_connect"
    /\ dbinit' =
            IF SetupFailed(outcome)
            THEN [dbinit EXCEPT !.events = @ \cup {outcome}, !.pc = "pg_teardown"]
            ELSE [dbinit EXCEPT !.pool = TRUE, !.todo = pg_statements, !.pc = "pg_schema"]
    /\ UNCHANGED <<backend, raw, cache, clock, call, batch, lastStore, ncalls>>
    /\ UNCHANGED <<reader, bulk, fs>>
    /\ UNCHANGED <<dbops, adapter, pool, stub, single>>

\* db.py 128-134, 141, 157-159: one statement of the schema creation; after
\* the last one _setup returns True and the backend is selected
PgSchema(outcome) ==
    /\ dbinit.pc = "pg_schema"
    /\ LET rest == Tail(dbinit.todo)
           seen == dbinit.events \cup (IF outcome = "ok" THEN {} ELSE {outcome})
       IN  IF SetupFailed(outcome)
           THEN /\ dbinit' = [dbinit EXCEPT !.events = seen, !.pc = "pg_teardown"]
                /\ backend' = backend
           ELSE IF rest # <<>>
           THEN /\ dbinit' = [dbinit EXCEPT !.events = seen, !.todo = rest]
                /\ backend' = backend
           ELSE /\ dbinit' = [dbinit EXCEPT !.events = seen, !.todo = rest,
                                            !.pg_schema = TRUE, !.pc = "ready"]
                /\ backend' = "postgres"
    /\ UNCHANGED <<raw, cache, clock, call, batch, lastStore, ncalls>>
    /\ UNCHANGED <<reader, bulk, fs>>
    /\ UNCHANGED <<dbops, adapter, pool, stub, single>>

\* db.py 146-155: the pool is dropped and the event loop stopped.  When the
\* wait for _setup timed out during create_pool, the coroutine is still on
\* the loop thread (the wait cancels nothing): it may get its pool and
\* assign self._pg_pool (line 126) after line 148 has cleared it and before
\* the loop carries out the stop ("late").
PgTeardown(late) ==
    /\ dbinit.pc = "pg_teardown"
    /\ late => "timeout" \in dbinit.events /\ ~dbinit.pool
    /\ dbinit' = [dbinit EXCEPT !.pool = late, !.loop = FALSE, !.todo = <<>>,
                                !.pc = "sqlite_connect"]
    /\ UNCHANGED <<backend, raw, cache, clock, call, batch, lastStore, ncalls>>
    /\ UNCHANGED <<reader, bulk, fs>>
    /\ UNCHANGED <<dbops, adapter, pool, stub, single>>

\* db.py 161-164: the embedded connection; an exception of apsw.Connection
\* leaves the constructor
SqliteConnect(ok) ==
    /\ dbinit.pc = "sqlite_connect"
    /\ IF ok
       THEN /\ dbinit' = [dbinit EXCEPT !.connection = TRUE, !.todo = sqlite_statements,
                                        !.pc = "sqlite_schema"]
            /\ backend' = "sqlite"
       ELSE /\ dbinit' = [dbinit EXCEPT !.error = "embedded_connect", !.pc = "raised"]
            /\ backend' = backend
    /\ UNCHANGED <<raw, cache, clock, call, batch, lastStore, ncalls>>
    /\ UNCHANGED <<reader, bulk, fs>>
    /\ UNCHANGED <<dbops, adapter, pool, stub, single>>

\* db.py 166-181: the pragmas and the tables of the embedded backend
SqliteSchema(ok) ==
    /\ dbinit.pc = "sqlite_schema"
    /\ LET rest == Tail(dbinit.todo)
       IN  dbinit' =
            IF ~ok THEN [dbinit EXCEPT !.error = "embedded_schema", !.pc = "raised"]
            ELSE IF rest # <<>> THEN [dbinit EXCEPT !.todo = rest]
            ELSE [dbinit EXCEPT !.todo = rest, !.sqlite_schema = TRUE, !.pc = "ready"]
    /\ UNCHANGED <<backend, raw, cache, clock, call, batch, lastStore, ncalls>>
    /\ UNCHANGED <<reader, bulk, fs>>
    /\ UNCHANGED <<dbops, adapter, pool, stub, single>>

\* ------------------------------------------- statements on the backend
\* the public operations of Database (db.py 470-532)
DbOpArgs == {"execute", "executemany", "fetchone", "fetchall"}

IdleOp == [pc |-> "idle", op |-> None, rows |-> FALSE, result |-> None]

\* lock: the holder of Database._lock; active: the callers whose statement
\* on the embedded connection has started and has not completed
IdleDb == [lock |-> None, active |-> {}, thr |-> [c \in Callers |-> IdleOp]]

\* a failed statement answered by a switch to the embedded backend
BackendAfter_Fallback(b, outcome) == IF outcome = "ok" THEN b ELSE "sqlite"

\* db.py 418-423, 470-532: an exception of the driver leaves the operation
\* as it is; no line of the operations assigns self.backend
BackendAfter(b, outcome) == b

\* db.py 470-478, 485-507, 514-521, 524-531: the operation looks at
\* self.backend; on the embedded backend it needs the connection and then
\* waits for the lock.  rows: the statement is a SELECT that yields rows.
DbCall(c, op, rows) ==
    /\ dbinit.pc = "ready"
    /\ dbops.thr[c].pc \in {"idle", "done"}
    /\ ncalls < MaxCalls
    /\ ncalls' = ncalls + 1
    /\ LET start == [IdleOp EXCEPT !.op = op, !.rows = rows]
       IN  dbops' = [dbops EXCEPT !.thr[c] =
                IF backend = "postgres" THEN [start EXCEPT !.pc = "pg_run"]
                ELSE IF ~dbinit.connection
                THEN [start EXCEPT !.pc = "done", !.result = "raised"]
                ELSE [start EXCEPT !.pc = "wait_lock"]]
    /\ UNCHANGED <<backend, raw, cache, clock, call, batch, lastStore>>
    /\ UNCHANGED <<reader, bulk, fs, dbinit>>
    /\ UNCHANGED <<adapter, pool, stub, single>>

\* db.py 418-468: the statement runs on a connection of the pool; the
\* result of the future is returned, its exception raised to the caller
PgRun(c, outcome) ==
    /\ dbops.thr[c].pc = "pg_run"
    /\ dbops' = [dbops EXCEPT !.thr[c].pc = "done",
                              !.thr[c].result = IF outcome = "ok" THEN "returned" ELSE "raised"]
    /\ backend' = BackendAfter(backend, outcome)
    /\ UNCHANGED <<raw, cache, clock, call, batch, lastStore, ncalls>>
    /\ UNCHANGED <<reader, bulk, fs, dbinit>>
    /\ UNCHANGED <<adapter, pool, stub, single>>

\* db.py 480-482, 509-511: with self._lock, a cursor of the connection is
\* made and the statement started on it
Acquire(c) ==
    /\ dbops.thr[c].pc = "wait_lock"
    /\ dbops.lock = None
    /\ dbops' = [dbops EXCEPT !.lock = c, !.active = @ \cup {c}, !.thr[c].pc = "locked"]
    /\ UNCHANGED <<backend, raw, cache, clock, call, batch, lastStore, ncalls>>
    /\ UNCHANGED <<reader, bulk, fs, dbinit>>
    /\ UNCHANGED <<adapter, pool, stub, single>>

\* db.py 482-483, 511-512: cursor.execute returns when the first row is
\* available or the statement has completed; the cursor is returned and
\* the lock released.  An exception of the statement leaves the with block
\* the same way and reaches the caller.  execute and executemany hand the
\* cursor to their caller, fetchone and fetchall go on to fetch from it.
ExecEnd(c, ok) ==
    /\ dbops.thr[c].pc = "locked"
    /\ LET t == dbops.thr[c]
           pending == ok /\ t.rows
       IN  dbops' = [dbops EXCEPT
                !.lock = None,
                !.active = IF pending THEN @ ELSE @ \ {c},
                !.thr[c].pc = IF ~ok THEN "done"
                              ELSE IF t.op \in {"fetchone", "fetchall"} THEN "fetch"
                              ELSE IF pending THEN "cursor" ELSE "done",
                !.thr[c].result = IF ~ok THEN "raised"
                                  ELSE IF t.op \in {"fetchone", "fetchall"} THEN None
                                  ELSE "returned"]
    /\ backend' = BackendAfter(backend, IF ok THEN "ok" ELSE "error")
    /\ UNCHANGED <<raw, cache, clock, call, batch, lastStore, ncalls>>
    /\ UNCHANGED <<reader, bulk, fs, dbinit>>
    /\ UNCHANGED <<adapter, pool, stub, single>>

\* db.py 522, 532: cursor.fetchone() / cursor.fetchall() of fetchone and
\* fetchall, after execute has returned; or the caller of execute reading
\* the cursor it was given.  The statement completes.
Fetch(c) ==
    /\ dbops.thr[c].pc \in {"fetch", "cursor"}
    /\ dbops' = [dbops EXCEPT !.active = @ \ {c}, !.thr[c].pc = "done",
                              !.thr[c].result = "returned"]
    /\ UNCHANGED <<backend, raw, cache, clock, call, batch, lastStore, ncalls>>
    /\ UNCHANGED <<reader, bulk, fs, dbinit>>
    /\ UNCHANGED <<adapter, pool, stub, single>>

\* ------------------------------------------------------------ SQL adapter
\* A query is the sequence of its lexical tokens, blanks included: keywords,
\* names, punctuation, and the pieces of a string literal between its quotes.
MaxParams == 5

Blank == {" ", "\n"}

\* str.upper() of a token.  The searches made on the upper-cased query look
\* for keywords; a name or a punctuation mark is none of them in any case
upper_token(tok) ==
    CASE tok = "insert" -> "INSERT"
      [] tok = "or" -> "OR"
      [] tok = "replace" -> "REPLACE"
      [] tok = "ignore" -> "IGNORE"
      [] tok = "into" -> "INTO"
      [] tok = "values" -> "VALUES"
      [] OTHER -> tok

upper(query) == [i \in DOMAIN query |-> upper_token(query[i])]

\* str.find / str.index from position start: the first place where pat
\* occurs, 0 when it does not occur
find(query, pat, start) ==
    LET hits == {i \in start..(Len(query) - Len(pat) + 1) :
                    SubSeq(query, i, i + Len(pat) - 1) = pat}
    IN  IF start < 1 \/ hits = {} THEN 0
        ELSE CHOOSE i \in hits : \A j \in hits : i <= j

\* str.replace(pat, rep, 1)
replace_first(query, pat, rep) ==
    LET i == find(query, pat, 1)
    IN  IF i = 0 THEN query
        ELSE SubSeq(query, 1, i - 1) \o rep \o SubSeq(query, i + Len(pat), Len(query))

RECURSIVE lstrip(_, _)
lstrip(query, chars) ==
    IF query # <<>> /\ Head(query) \in chars THEN lstrip(Tail(query), chars) ELSE query

RECURSIVE rstrip(_, _)
rstrip(query, chars) ==
    IF query # <<>> /\ query[Len(query)] \in chars
    THEN rstrip(SubSeq(query, 1, Len(query) - 1), chars) ELSE query

RECURSIVE split(_, _)
\* str.split(sep)
split(query, sep) ==
    LET i == find(query, <<sep>>, 1)
    IN  IF i = 0 THEN <<query>>
        ELSE <<SubSeq(query, 1, i - 1)>> \o split(SubSeq(query, i + 1, Len(query)), sep)

\* dataset_config.py 24-69: the datasets in the order of DATASET_CONFIG,
\* their raw tables and their key fields
config_order == <<"issues", "controls", "external_loss", "internal_loss">>

config_table ==
    [ds \in DOMAIN ai_functions |->
        CASE ds = "issues" -> "issues_raw"
          [] ds = "controls" -> "controls_raw"
          [] ds = "external_loss" -> "external_loss_raw"
          [] ds = "internal_loss" -> "internal_loss_raw"]

config_key_field ==
    [ds \in DOMAIN ai_functions |->
        CASE ds = "issues" -> "issue_id"
          [] ds = "controls" -> "control_id"
          [] ds = "external_loss" -> "reference_id_code"
          [] ds = "internal_loss" -> "event_id"]

\* the table names statements are written against: f"{dataset}_{suffix}"
\* (db.py 245, resolver.py 95, batch_utils.py 166) and config.table
sql_name ==
    [t \in {"issues_raw", "issues_issue_taxonomy", "controls_raw", "controls_controls_taxonomy",
            "external_loss_raw", "external_loss_root_cause", "internal_loss_enrichment"} |->
        CASE t = "issues_raw" -> <<"issues", "raw">>
          [] t = "issues_issue_taxonomy" -> <<"issues", "issue_taxonomy">>
          [] t = "controls_raw" -> <<"controls", "raw">>
          [] t = "controls_controls_taxonomy" -> <<"controls", "controls_taxonomy">>
          [] t = "external_loss_raw" -> <<"external_loss", "raw">>
          [] t = "external_loss_root_cause" -> <<"external_loss", "root_cause">>
          [] t = "internal_loss_enrichment" -> <<"internal_loss", "enrichment">>]

\* table.startswith(f"{dataset}_")
startswith(table, ds) == table \in DOMAIN sql_name /\ sql_name[table][1] = ds

\* db.py 314-319
get_key_field_for_table(table) ==
    LET hits == {i \in DOMAIN config_order :
                    \/ config_table[config_order[i]] = table
                    \/ startswith(table, config_order[i])}
    IN  IF hits = {} THEN None
        ELSE config_key_field[config_order[CHOOSE i \in hits : \A j \in hits : i <= j]]

\* db.py 329-335, 356-362: the characters after the keyword, leading
\* blanks dropped, up to the first blank or parenthesis.  A table name is
\* one token.
table_after(query, idx, token) ==
    LET after_strip == lstrip(SubSeq(query, idx + Len(token), Len(query)), Blank)
    IN  IF after_strip = <<>> \/ Head(after_strip) \in Blank \cup {"("} THEN ""
        ELSE Head(after_strip)

\* db.py 321-345
adapt_insert_or_ignore(query) ==
    LET token == <<"INSERT", " ", "OR", " ", "IGNORE", " ", "INTO">>
        idx == find(upper(query), token, 1)
        key_field == get_key_field_for_table(table_after(query, idx, token))
        plain == replace_first(query, <<"INSERT", " ", "OR", " ", "IGNORE">>, <<"INSERT">>)
    IN  IF idx = 0 THEN query
        ELSE IF key_field = None THEN plain
        ELSE rstrip(plain, {";", "\n", " "})
                \o <<" ", "ON", " ", "CONFLICT", " ", "(", key_field, ")", " ", "DO", " ", "NOTHING">>

RECURSIVE assignments(_)
\* db.py 388: ", ".join(f"{col} = EXCLUDED.{col}" for col in non_key_columns)
assignments(columns) ==
    IF columns = <<>> THEN <<>>
    ELSE Head(columns) \o <<" ", "=", " ", "EXCLUDED", ".">> \o Head(columns)
            \o (IF Tail(columns) = <<>> THEN <<>> ELSE <<",", " ">> \o assignments(Tail(columns)))

\* db.py 347-393
adapt_insert_or_replace(query) ==
    LET token == <<"INSERT", " ", "OR", " ", "REPLACE", " ", "INTO">>
        idx == find(upper(query), token, 1)
        key_field == get_key_field_for_table(table_after(query, idx, token))
        plain == replace_first(query, <<"INSERT", " ", "OR", " ", "REPLACE">>, <<"INSERT">>)
        start_cols == find(query, <<"(">>, idx)
        end_cols == find(query, <<")">>, start_cols)
        parts == split(SubSeq(query, start_cols + 1, end_cols - 1), ",")
        stripped == [i \in DOMAIN parts |-> lstrip(rstrip(parts[i], Blank), Blank)]
        columns == SelectSeq(stripped, LAMBDA col : col # <<>>)
        non_key_columns == SelectSeq(columns, LAMBDA col : col # <<key_field>>)
        base == rstrip(plain, {";", "\n", " "})
    IN  IF idx = 0 THEN query
        ELSE IF key_field = None THEN plain
        ELSE IF start_cols = 0 \/ end_cols = 0 THEN plain
        ELSE IF non_key_columns # <<>>
        THEN base \o <<" ", "ON", " ", "CONFLICT", " ", "(", key_field, ")", " ",
                       "DO", " ", "UPDATE", " ", "SET", " ">> \o assignments(non_key_columns)
        ELSE base \o <<" ", "ON", " ", "CONFLICT", " ", "(", key_field, ")", " ", "DO", " ", "NOTHING">>

\* f"${idx}"
Marker == <<"$1", "$2", "$3", "$4", "$5", "$6", "$7">>

RECURSIVE replace_from(_, _, _)
\* db.py 401-402: for idx in range(1, param_count + 1)
replace_from(adapted, idx, param_count) ==
    IF idx > param_count THEN adapted
    ELSE replace_from(replace_first(adapted, <<"?">>, <<Marker[idx]>>), idx + 1, param_count)

\* db.py 395-403
replace_placeholders(query, param_count) ==
    IF param_count <= 0 \/ find(query, <<"?">>, 1) = 0 THEN query
    ELSE replace_from(query, 1, param_count)

\* db.py 405-416
adapt_query_for_postgres(query, param_count) ==
    LET up == upper(query)
        replaced == IF find(up, <<"INSERT", " ", "OR", " ", "REPLACE">>, 1) # 0
                    THEN adapt_insert_or_replace(query) ELSE query
        ignored == IF find(up, <<"INSERT", " ", "OR", " ", "IGNORE">>, 1) # 0
                   THEN adapt_insert_or_ignore(replaced) ELSE replaced
    IN  replace_placeholders(ignored, param_count)

\* The statements handed to the adapter.  An insert names its table and
\* its columns and has one placeholder per column (resolver.py 177-180,
\* batch_utils.py 174-178, db.py 546-549, csv_ingest.py 130-136); a select
\* has n placeholders and may compare a column with a string literal that
\* holds a question mark, before or after the placeholders.
lower_token(tok) ==
    CASE tok = "INSERT" -> "insert"
      [] tok = "OR" -> "or"
      [] tok = "REPLACE" -> "replace"
      [] tok = "IGNORE" -> "ignore"
      [] tok = "INTO" -> "into"
      [] tok = "VALUES" -> "values"
      [] OTHER -> tok

Cased(lower, query) == IF lower THEN [i \in DOMAIN query |-> lower_token(query[i])] ELSE query

RECURSIVE Listed(_)
\* the items of a list, ", " between them
Listed(items) ==
    IF items = <<>> THEN <<>>
    ELSE <<Head(items)>> \o (IF Tail(items) = <<>> THEN <<>> ELSE <<",", " ">> \o Listed(Tail(items)))

\* the placeholders of a statement with n parameters, the k-th written ph[k]
Holders(n, ph) == Listed(SubSeq(ph, 1, n))

\* the placeholders as the callers write them
Question == [k \in DOMAIN Marker |-> "?"]

LiteralTest == <<"title", " ", "=", " ", "'", "why", "?", "'">>

\* the text of a statement; ph writes its k-th placeholder
Text(st, ph) ==
    IF st.kind = "select"
    THEN <<"SELECT", " ", "*", " ", "FROM", " ", st.table, " ", "WHERE", " ">>
            \o (IF st.literal = "before" THEN LiteralTest \o <<" ", "AND", " ">> ELSE <<>>)
            \o <<"id", " ", "IN", " ", "(">> \o Holders(st.n, ph) \o <<")">>
            \o (IF st.literal = "after" THEN <<" ", "AND", " ">> \o LiteralTest ELSE <<>>)
    ELSE Cased(st.lower, <<"INSERT", " ", "OR", " ", st.kind, " ", "INTO", " ">>)
            \o <<st.table>> \o st.gap
            \o (IF st.cols = <<>> THEN <<>> ELSE <<"(">> \o Listed(st.cols) \o <<")", " ">>)
            \o (IF st.n = 0 THEN <<"DEFAULT", " ", "VALUES">>
                ELSE Cased(st.lower, <<"VALUES">>) \o <<" ", "(">> \o Holders(st.n, ph) \o <<")">>)
            \o st.tail

\* resolver.py 47-53, batch_utils.py 51-56: the key column the resolver
\* and the batch processor write into their statements
key_fields ==
    [ds \in DOMAIN function_map |->
        CASE ds = "controls" -> "control_id"
          [] ds = "external_loss" -> "ext_loss_id"
          [] ds = "internal_loss" -> "loss_id"
          [] ds = "issues" -> "issue_id"]

ColumnLists(table) ==
    LET ds == sql_name[table][1]
    IN  {<<config_key_field[ds], "payload", "created_at">>,
         <<key_fields[ds], "payload", "created_at">>,
         <<"title", config_key_field[ds]>>,
         <<config_key_field[ds]>>}

InsertStatements ==
    {[kind |-> kind, lower |-> lower, table |-> table, cols |-> cols, gap |-> gap,
      tail |-> tail, n |-> Len(cols), literal |-> "none"] :
        kind \in {"REPLACE", "IGNORE"}, lower \in BOOLEAN, table \in DOMAIN sql_name,
        cols \in UNION {ColumnLists(t) : t \in DOMAIN sql_name},
        gap \in {<<>>, <<" ">>, <<"\n", " ">>}, tail \in {<<>>, <<";", "\n", " ">>}}

SelectStatements ==
    {[kind |-> "select", lower |-> FALSE, table |-> "issues_raw", cols |-> <<>>, gap |-> <<>>,
      tail |-> <<>>, n |-> n, literal |-> literal] :
        n \in 0..MaxParams, literal \in {"none", "before", "after"}}

Statements ==
    {st \in InsertStatements : st.cols \in ColumnLists(st.table)} \cup SelectStatements

\* inserts the adapter has no rewrite for: into a table of no configured
\* dataset, and an INSERT OR REPLACE without a column list (its values in
\* parentheses, or none)
ForeignStatements ==
    {[kind |-> kind, lower |-> FALSE, table |-> "audit_log", cols |-> <<"entry_id", "payload">>,
      gap |-> <<" ">>, tail |-> <<>>, n |-> 2, literal |-> "none"] : kind \in {"REPLACE", "IGNORE"}}
    \cup
    {[kind |-> "REPLACE", lower |-> FALSE, table |-> "issues_issue_taxonomy", cols |-> <<>>,
      gap |-> <<" ">>, tail |-> <<>>, n |-> n, literal |-> "none"] : n \in {0, 3}}

NoStatement ==
    [kind |-> None, lower |-> FALSE, table |-> None, cols |-> <<>>, gap |-> <<>>,
     tail |-> <<>>, n |-> 0, literal |-> "none"]

IdleAdapter ==
    [pc |-> "idle", input |-> NoStatement, query |-> <<>>, param_count |-> 0, sql |-> <<>>]

\* db.py 470-474, 487-491, 516-518, 526-528: on the client/server backend
\* an operation adapts its query, with the number of its parameters,
\* before it runs it.  A behaviour follows one statement.
AdaptQuery(st) ==
    /\ dbinit.pc = "ready"
    /\ backend = "postgres"
    /\ adapter.pc = "idle"
    /\ adapter' = [pc |-> "adapted", input |-> st, query |-> Text(st, Question),
                   param_count |-> st.n,
                   sql |-> adapt_query_for_postgres(Text(st, Question), st.n)]
    /\ UNCHANGED <<backend, raw, cache, clock, call, batch, lastStore, ncalls>>
    /\ UNCHANGED <<reader, bulk, fs, dbinit>>
    /\ UNCHANGED <<dbops, pool, stub, single>>

\* ------------------------------------------- the chunks of a batch run
MaxWorkers == 2
MaxChunkLen == 11

\* batch_utils.py 132: batch_result.get('errors', [])[:10]
error_limit == 10

Min(a, b) == IF a < b THEN a ELSE b

\* batch_utils.py 159-164
NoTally == [processed |-> 0, successful |-> 0, failed |-> 0, errors |-> <<>>]

\* a chunk handed to executor.submit: its ids, the ids its worker has been
\* through, where it is, the tally of its worker, and whether its future
\* holds an exception instead of a tally
Chunk(ids) ==
    [ids |-> ids, done |-> <<>>, state |-> "submitted", tally |-> NoTally, raised |-> FALSE]

IdlePool ==
    [pc |-> "idle", batch_size |-> 0, todo |-> <<>>, chunks |-> <<>>,
     computed |-> <<>>, written |-> <<>>, calls |-> <<>>]

\* range(0, n, step) for n >= 0: empty when the step is negative
range0(n, step) ==
    IF step > 0 THEN [k \in 1..((n + step - 1) \div step) |-> (k - 1) * step] ELSE <<>>

\* batch_utils.py 113-114: ids_to_process[i:i + self.batch_size] for i in range(...)
Slices(todo, size) ==
    LET starts == range0(Len(todo), size)
    IN  [k \in DOMAIN starts |-> SubSeq(todo, starts[k] + 1, Min(starts[k] + size, Len(todo)))]

\* batch_utils.py 99-123: the chunks are submitted to the executor.  range()
\* raises ValueError for a step of 0, which leaves the function; for a
\* negative step it yields nothing, no chunk is submitted and the run goes
\* on to its report.
SubmitChunks(size) ==
    /\ batch.pc = "run"
    /\ pool.pc = "idle"
    /\ LET slices == Slices(batch.queue, size)
           started == [IdlePool EXCEPT !.batch_size = size, !.todo = batch.queue]
       IN  IF size = 0
           THEN /\ pool' = [started EXCEPT !.pc = "done"]
                /\ batch' = [batch EXCEPT !.pc = "done", !.status = "ValueError"]
           ELSE /\ pool' = [started EXCEPT !.pc = "workers",
                                           !.chunks = [k \in DOMAIN slices |-> Chunk(slices[k])]]
                /\ batch' = [batch EXCEPT !.pc = "pool"]
    /\ UNCHANGED <<backend, raw, cache, clock, call, lastStore, ncalls>>
    /\ UNCHANGED <<reader, bulk, fs, dbinit>>
    /\ UNCHANGED <<dbops, adapter, stub, single>>

\* ThreadPoolExecutor(max_workers): a free worker takes a submitted chunk
WorkerStart(k) ==
    /\ pool.pc = "workers"
    /\ k \in DOMAIN pool.chunks
    /\ pool.chunks[k].state = "submitted"
    /\ Cardinality({j \in DOMAIN pool.chunks : pool.chunks[j].state = "running"}) < MaxWorkers
    /\ pool' = [pool EXCEPT !.chunks[k].state = "running"]
    /\ UNCHANGED <<backend, raw, cache, clock, call, batch, lastStore, ncalls>>
    /\ UNCHANGED <<reader, bulk, fs, dbinit>>
    /\ UNCHANGED <<dbops, adapter, stub, single>>

\* batch_utils.py 168-197: one iteration of the loop of _process_batch on
\* the next id of the chunk; after the last id the tally is returned
ProcessItem(k, p, outcome) ==
    /\ pool.pc = "workers"
    /\ k \in DOMAIN pool.chunks
    /\ pool.chunks[k].state = "running"
    /\ LET ch == pool.chunks[k]
           id == ch.ids[Len(ch.done) + 1]
           t == TableName(batch.dataset, batch.func)
           row == [id |-> id, payload |-> json_dumps(p), created_at |-> UtcNow]
           good == outcome = "ok"
           last == Len(ch.done) + 1 = Len(ch.ids)
       IN  /\ good => CanStore(t, batch.dataset, id)
           /\ cache' = IF good THEN [cache EXCEPT ![t] = InsertOrReplace(@, row)] ELSE cache
           /\ pool' = [pool EXCEPT
                    !.computed = Append(@, id),
                    !.written = IF good THEN Append(@, id) ELSE @,
                    !.chunks[k] = [ch EXCEPT
                        !.done = Append(@, id),
                        !.state = IF last THEN "returned" ELSE "running",
                        !.tally = [processed |-> @.processed + 1,
                                   successful |-> IF good THEN @.successful + 1 ELSE @.successful,
                                   failed |-> IF good THEN @.failed ELSE @.failed + 1,
                                   errors |-> BatchErrors(@.errors, id, good)]]]
    /\ UNCHANGED <<backend, raw, clock, call, batch, lastStore, ncalls>>
    /\ UNCHANGED <<reader, bulk, fs, dbinit>>
    /\ UNCHANGED <<dbops, adapter, stub, single>>

\* batch_utils.py 187-190: an exception raised inside the handler of the loop
\* of _process_batch (while the caught one is formatted) leaves the function;
\* the tally of the chunk is lost and its future holds the exception
WorkerRaises(k) ==
    /\ pool.pc = "workers"
    /\ k \in DOMAIN pool.chunks
    /\ pool.chunks[k].state = "running"
    /\ LET ch == pool.chunks[k]
           id == ch.ids[Len(ch.done) + 1]
       IN  pool' = [pool EXCEPT
                !.computed = Append(@, id),
                !.chunks[k] = [ch EXCEPT !.done = Append(@, id), !.state = "returned",
                                         !.tally = NoTally, !.raised = TRUE]]
    /\ UNCHANGED <<backend, raw, cache, clock, call, batch, lastStore, ncalls>>
    /\ UNCHANGED <<reader, bulk, fs, dbinit>>
    /\ UNCHANGED <<dbops, adapter, stub, single>>

\* the counters a progress callback is shown
Totals(b) == [processed |-> b.processed, successful |-> b.successful, failed |-> b.failed]

MergeFailed_Abort(p) == [p EXCEPT !.pc = "aborted"]

\* batch_utils.py 138-140: the exception of a chunk is logged and its message
\* appended; the loop over the futures goes on
MergeFailed(p) == p

\* batch_utils.py 126-140: the tally of a finished chunk is added to the
\* results, its first error_limit messages with it, and the progress callback
\* is called with the results; an exception of future.result() or of the
\* callback is caught and its message appended
Collect(k, callback) ==
    /\ pool.pc = "workers"
    /\ k \in DOMAIN pool.chunks
    /\ pool.chunks[k].state = "returned"
    /\ LET ch == pool.chunks[k]
           tally == ch.tally
           kept == SubSeq(tally.errors, 1, Min(Len(tally.errors), error_limit))
           merged == [batch EXCEPT
                !.processed = @ + tally.processed,
                !.successful = @ + tally.successful,
                !.failed = @ + tally.failed,
                !.errors = @ \o kept \o (IF callback = "raises" THEN <<"callback">> ELSE <<>>)]
           collected == [pool EXCEPT !.chunks[k].state = "collected"]
       IN  IF ch.raised
           THEN /\ batch' = [batch EXCEPT !.errors = Append(@, "future")]
                /\ pool' = MergeFailed(collected)
           ELSE /\ batch' = merged
                /\ pool' = IF callback = "none" THEN collected
                           ELSE IF callback = "raises"
                                THEN MergeFailed([collected EXCEPT !.calls = Append(@, Totals(merged))])
                                ELSE [collected EXCEPT !.calls = Append(@, Totals(merged))]
    /\ UNCHANGED <<backend, raw, cache, clock, call, lastStore, ncalls>>
    /\ UNCHANGED <<reader, bulk, fs, dbinit>>
    /\ UNCHANGED <<dbops, adapter, stub, single>>

\* batch_utils.py 142-148: every future has been collected; the report
Report ==
    /\ pool.pc = "workers"
    /\ \A k \in DOMAIN pool.chunks : pool.chunks[k].state = "collected"
    /\ pool' = [pool EXCEPT !.pc = "done"]
    /\ batch' = [batch EXCEPT !.pc = "done", !.status = "completed", !.queue = <<>>]
    /\ UNCHANGED <<backend, raw, cache, clock, call, lastStore, ncalls>>
    /\ UNCHANGED <<reader, bulk, fs, dbinit>>
    /\ UNCHANGED <<dbops, adapter, stub, single>>

\* ------------------------------- the stub compute functions (mock_ai.py)
\* mock_ai.py 9: int(hashlib.md5(id_str.encode()).hexdigest()[:8], 16)
hash_val == [id \in IdArgs |-> IF id = "r1" THEN 1 ELSE 2]

\* the generator of the random module after random.seed(seed) and n draws
Generator(seed, n) == [seed |-> seed, drawn |-> n]

\* the value the generator yields next
NextValue(g) == <<g.seed, g.drawn>>

\* mock_ai.py 29, 33: random.choice and random.uniform of get_controls_ai_taxonomy
draws_per_call == 2

IdleStubCall == [pc |-> "idle", id |-> None, values |-> <<>>]

\* random is the module's one shared generator; a thread per compute call
IdleStub == [random |-> Generator(0, 0), thr |-> [c \in Callers |-> IdleStubCall]]

\* batch_utils.py 110-123, 171: a worker thread calls the compute function
StubCall(c, id) ==
    /\ stub.thr[c].pc \in {"idle", "done"}
    /\ ncalls < MaxCalls
    /\ ncalls' = ncalls + 1
    /\ stub' = [stub EXCEPT !.thr[c] = [pc |-> "seed", id |-> id, values |-> <<>>]]
    /\ UNCHANGED <<backend, raw, cache, clock, call, batch, lastStore>>
    /\ UNCHANGED <<reader, bulk, fs, dbinit>>
    /\ UNCHANGED <<dbops, adapter, pool, single>>

\* mock_ai.py 7-10, 14: _seed_random(id) seeds the shared generator
SeedRandom(c) ==
    /\ stub.thr[c].pc = "seed"
    /\ stub' = [stub EXCEPT !.random = Generator(hash_val[stub.thr[c].id], 0),
                            !.thr[c].pc = "draw"]
    /\ UNCHANGED <<backend, raw, cache, clock, call, batch, lastStore, ncalls>>
    /\ UNCHANGED <<reader, bulk, fs, dbinit>>
    /\ UNCHANGED <<dbops, adapter, pool, single>>

\* mock_ai.py 29-35: a draw from the shared generator; after the last one
\* the payload, made of the values drawn, is returned
Draw(c) ==
    /\ stub.thr[c].pc = "draw"
    /\ LET values == Append(stub.thr[c].values, NextValue(stub.random))
       IN  stub' = [stub EXCEPT
                !.random = Generator(@.seed, @.drawn + 1),
                !.thr[c].values = values,
                !.thr[c].pc = IF Len(values) = draws_per_call THEN "done" ELSE "draw"]
    /\ UNCHANGED <<backend, raw, cache, clock, call, batch, lastStore, ncalls>>
    /\ UNCHANGED <<reader, bulk, fs, dbinit>>
    /\ UNCHANGED <<dbops, adapter, pool, single>>

\* ----------------------------- get_db (db.py) and get_resolver (resolver.py)
NoInstance == 0

IdleGetter == [pc |-> "idle", op |-> None, made |-> NoInstance, db |-> NoInstance,
               result |-> NoInstance]

\* the two module globals, the Database objects constructed so far (counted)
\* and the FunctionResolver objects constructed so far (each with the
\* Database its constructor got), and a thread per caller
IdleSingle ==
    [db_instance |-> NoInstance, resolver_instance |-> NoInstance,
     databases |-> 0, resolvers |-> <<>>, thr |-> [c \in Callers |-> IdleGetter]]

\* a caller enters get_db or get_resolver
GetterCall(c, op) ==
    /\ single.thr[c].pc \in {"idle", "done"}
    /\ ncalls < MaxCalls
    /\ ncalls' = ncalls + 1
    /\ single' = [single EXCEPT !.thr[c] =
            [IdleGetter EXCEPT !.op = op,
                               !.pc = IF op = "get_db" THEN "db_check" ELSE "resolver_check"]]
    /\ UNCHANGED <<backend, raw, cache, clock, call, batch, lastStore>>
    /\ UNCHANGED <<reader, bulk, fs, dbinit>>
    /\ UNCHANGED <<dbops, adapter, pool, stub>>

\* resolver.py 264-265: if _resolver_instance is None
ResolverCheck(c) ==
    /\ single.thr[c].pc = "resolver_check"
    /\ single' = [single EXCEPT !.thr[c].pc =
            IF single.resolver_instance = NoInstance THEN "db_check" ELSE "resolver_return"]
    /\ UNCHANGED <<backend, raw, cache, clock, call, batch, lastStore, ncalls>>
    /\ UNCHANGED <<reader, bulk, fs, dbinit>>
    /\ UNCHANGED <<dbops, adapter, pool, stub>>

\* db.py 609-610: if _db_instance is None (get_db called by the caller, or
\* by FunctionResolver.__init__, resolver.py 17)
DbCheck(c) ==
    /\ single.thr[c].pc = "db_check"
    /\ single' = [single EXCEPT !.thr[c].pc =
            IF single.db_instance = NoInstance THEN "db_new" ELSE "db_return"]
    /\ UNCHANGED <<backend, raw, cache, clock, call, batch, lastStore, ncalls>>
    /\ UNCHANGED <<reader, bulk, fs, dbinit>>
    /\ UNCHANGED <<dbops, adapter, pool, stub>>

\* db.py 611: Database() is constructed (its connection and its lock)
DbNew(c) ==
    /\ single.thr[c].pc = "db_new"
    /\ single' = [single EXCEPT !.databases = @ + 1,
                                !.thr[c].made = single.databases + 1,
                                !.thr[c].pc = "db_assign"]
    /\ UNCHANGED <<backend, raw, cache, clock, call, batch, lastStore, ncalls>>
    /\ UNCHANGED <<reader, bulk, fs, dbinit>>
    /\ UNCHANGED <<dbops, adapter, pool, stub>>

\* db.py 611: _db_instance = the object constructed
DbAssign(c) ==
    /\ single.thr[c].pc = "db_assign"
    /\ single' = [single EXCEPT !.db_instance = single.thr[c].made,
                                !.thr[c].pc = "db_return"]
    /\ UNCHANGED <<backend, raw, cache, clock, call, batch, lastStore, ncalls>>
    /\ UNCHANGED <<reader, bulk, fs, dbinit>>
    /\ UNCHANGED <<dbops, adapter, pool, stub>>

\* db.py 612: return _db_instance, to the caller or to the constructor of
\* the resolver (resolver.py 17: self.db = get_db()), which then completes
DbReturn(c) ==
    /\ single.thr[c].pc = "db_return"
    /\ single' =
            IF single.thr[c].op = "get_db"
            THEN [single EXCEPT !.thr[c].result = single.db_instance, !.thr[c].pc = "done"]
            ELSE [single EXCEPT !.resolvers = Append(@, single.db_instance),
                                !.thr[c].db = single.db_instance,
                                !.thr[c].made = Len(single.resolvers) + 1,
                                !.thr[c].pc = "resolver_assign"]
    /\ UNCHANGED <<backend, raw, cache, clock, call, batch, lastStore, ncalls>>
    /\ UNCHANGED <<reader, bulk, fs, dbinit>>
    /\ UNCHANGED <<dbops, adapter, pool, stub>>

\* resolver.py 266: _resolver_instance = FunctionResolver()
ResolverAssign(c) ==
    /\ single.thr[c].pc = "resolver_assign"
    /\ single' = [single EXCEPT !.resolver_instance = single.thr[c].made,
                                !.thr[c].pc = "resolver_return"]
    /\ UNCHANGED <<backend, raw, cache, clock, call, batch, lastStore, ncalls>>
    /\ UNCHANGED <<reader, bulk, fs, dbinit>>
    /\ UNCHANGED <<dbops, adapter, pool, stub>>

\* resolver.py 267: return _resolver_instance
ResolverReturn(c) ==
    /\ single.thr[c].pc = "resolver_return"
    /\ single' = [single EXCEPT !.thr[c].result = single.resolver_instance,
                                !.thr[c].pc = "done"]
    /\ UNCHANGED <<backend, raw, cache, clock, call, batch, lastStore, ncalls>>
    /\ UNCHANGED <<reader, bulk, fs, dbinit>>
    /\ UNCHANGED <<dbops, adapter, pool, stub>>

\* ------------------------------------------------------- specification
\* nothing of the statement layer, the adapter or the worker pool is under way
InitIdle ==
    /\ dbops = IdleDb
    /\ adapter = IdleAdapter
    /\ pool = IdlePool
    /\ stub = IdleStub
    /\ single = IdleSingle

\* rows the database file may hold when the process starts: results stored
\* by an earlier run, stamped before the process started, and on the
\* embedded backend (no foreign-key enforcement) a row whose raw record an
\* earlier batch_delete removed
PersistedRows ==
    {[id |-> "r1", payload |-> json_dumps("p1"), created_at |-> 0],
     [id |-> "r2", payload |-> json_dumps("p1"), created_at |-> 0]}

\* the raw records at the start
StartRaw == [ds \in DOMAIN function_map |-> {"r1"}]

InitStore ==
    /\ backend \in Backends
    /\ raw = StartRaw
    /\ \E rows \in SUBSET PersistedRows :
            /\ backend = "postgres" => \A r \in rows : r.id \in raw["issues"]
            /\ cache = [t \in Tables |-> IF t = TableName("issues", "ai_taxonomy") THEN rows ELSE {}]
    /\ clock = 1
    /\ batch = IdleBatch
    /\ lastStore = [by |-> None, table |-> <<None, None>>, id |-> None]
    /\ ncalls = 0
    /\ reader = IdleReader
    /\ bulk = IdleBulk
    /\ fs = [p \in {cache_path, temp_path} |-> NoFile]
    /\ dbinit = Settled(backend)
    /\ InitIdle

Init ==
    /\ InitStore
    /\ call = [c \in {"c1"} |-> IdleCall]

Next ==
    \/ \E c \in DOMAIN call, ds \in DatasetArgs, fn \in FuncArgs, id \in IdArgs, refresh \in BOOLEAN :
            ResolveStart(c, ds, fn, id, refresh)
    \/ \E c \in DOMAIN call : FetchRaw(c)
    \/ \E c \in DOMAIN call : CheckCache(c)
    \/ \E c \in DOMAIN call, p \in Payloads : ComputeOk(c, p)
    \/ \E c \in DOMAIN call, exc \in ExcTypes : ComputeRaises(c, exc)
    \/ \E c \in DOMAIN call, ok \in BOOLEAN : Store(c, ok)
    \/ \E c \in DOMAIN call, ds \in DatasetArgs, fn \in FuncArgs \cup {None}, id \in IdArgs \cup {None} :
            ClearCache(c, ds, fn, id)
    \/ \E ds \in DatasetArgs, fn \in FuncArgs, ids \in IdListArgs \cup {AllIds}, force \in BOOLEAN :
            /\ ds \in DOMAIN function_map => fn \in function_map[ds]
            /\ BatchStart(ds, fn, ids, force)
    \/ \E p \in Payloads, outcome \in {"ok", "compute_raises", "store_fails"} : BatchItem(p, outcome)
    \/ \E ds \in DatasetArgs, id \in IdArgs, cascade \in BOOLEAN : BatchDelete(ds, id, cascade)
    \/ Tick

Spec == Init /\ [][Next]_vars


\* two clients, each calling resolve once for the same existing record and
\* function, at any time relative to each other
InitPair ==
    /\ InitStore
    /\ call = [c \in Callers |-> IdleCall]

PairStart(c, refresh) ==
    /\ call[c].pc = "idle"
    /\ ResolveStart(c, "issues", "ai_taxonomy", "r1", refresh)

NextPair ==
    \/ \E c \in DOMAIN call, refresh \in BOOLEAN : PairStart(c, refresh)
    \/ \E c \in DOMAIN call : FetchRaw(c)
    \/ \E c \in DOMAIN call : CheckCache(c)
    \/ \E c \in DOMAIN call, p \in Payloads : ComputeOk(c, p)
    \/ \E c \in DOMAIN call, exc \in ExcTypes : ComputeRaises(c, exc)
    \/ \E c \in DOMAIN call, ok \in BOOLEAN : Store(c, ok)
    \/ Tick

SpecPair == InitPair /\ [][NextPair]_vars

\* a client reading all results of a record while a batch run writes
NextRead ==
    \/ \E ds \in DatasetArgs, id \in IdArgs : GetAllStart(ds, id)
    \/ GetAllStep
    \/ \E ds \in DatasetArgs, fn \in FuncArgs, ids \in IdListArgs \cup {AllIds}, force \in BOOLEAN :
            /\ ds \in DOMAIN function_map => fn \in function_map[ds]
            /\ BatchStart(ds, fn, ids, force)
    \/ \E p \in Payloads, outcome \in {"ok", "compute_raises", "store_fails"} : BatchItem(p, outcome)
    \/ Tick

SpecRead == Init /\ [][NextRead]_vars


\* batch runs of the server, or bulk runs of the command-line tool.  The two
\* work on different tables (function_map names the one, DATASET_CONFIG the
\* other) and only the tool touches the progress file, so a behaviour
\* follows the runs of one of them.  The progress file may be left from an
\* earlier run of the tool, possibly one with another configuration, or be
\* damaged; the function table of the bulk run may hold rows already.
BulkDatasetArgs == {"controls", "products"}
BulkFuncArgs == {"root_cause", "ai_taxonomy"}
BatchSizeArgs == {1, 2}
InterruptKinds == {"raise", "cancel"}

ProgressFiles ==
    {NoFile, Unreadable,
     Doc("controls", "root_cause", FALSE, <<"r1", "r2">>),
     Doc("controls", "root_cause", TRUE, <<"r1", "r2">>),
     Doc("controls", "root_cause", TRUE, <<>>),
     Doc("controls", "enrichment", FALSE, <<"r3">>)}

BulkTable == TableName("controls", "root_cause")

BulkPersisted == {{}, {"r4"}, {"r3", "r4"}, {"r1", "r2", "r3", "r4"}}

InitRuns ==
    /\ backend \in Backends
    /\ raw = [ds \in DOMAIN function_map |->
                IF ds = "controls" THEN {"r1", "r2", "r3", "r4"} ELSE {"r1", "r2"}]
    /\ \E rows \in SUBSET PersistedRows, ids \in BulkPersisted :
            cache = [t \in Tables \cup SchemaTables |->
                        IF t = TableName("issues", "ai_taxonomy") THEN rows
                        ELSE IF t = BulkTable
                        THEN {[id |-> i, payload |-> json_dumps("p1"), created_at |-> 0] : i \in ids}
                        ELSE {}]
    /\ clock = 1
    /\ call = [c \in {"c1"} |-> IdleCall]
    /\ batch = IdleBatch
    /\ lastStore = [by |-> None, table |-> <<None, None>>, id |-> None]
    /\ ncalls = 0
    /\ reader = IdleReader
    /\ bulk = IdleBulk
    /\ \E f \in ProgressFiles : fs = [p \in {cache_path, temp_path} |-> IF p = cache_path THEN f ELSE NoFile]
    /\ dbinit = Settled(backend)
    /\ InitIdle

NextRuns ==
    \/ \E ds \in DatasetArgs, fn \in FuncArgs, ids \in IdListArgs \cup {AllIds}, force \in BOOLEAN :
            /\ ds \in DOMAIN function_map => fn \in function_map[ds]
            /\ bulk.pc = "idle"
            /\ BatchStart(ds, fn, ids, force)
    \/ \E p \in Payloads, outcome \in {"ok", "compute_raises", "store_fails"} : BatchItem(p, outcome)
    \/ \E ds \in BulkDatasetArgs, fn \in BulkFuncArgs, refresh \in BOOLEAN, size \in BatchSizeArgs :
            /\ batch.pc = "idle"
            /\ BulkStart(ds, fn, refresh, size)
    \/ \E success \in ProcessSingleOutcomes : BulkItem(success)
    \/ SaveOpen
    \/ SaveWrite
    \/ SaveFlush
    \/ SaveReplace
    \/ BulkEnd
    \/ \E kind \in InterruptKinds : Interrupt(kind)
    \/ Crash

SpecRuns == InitRuns /\ [][NextRuns]_vars

\* CacheManager.save of any processed set under any configuration, over any
\* progress file, followed by the construction of a CacheManager on the path
ProcessedSets == SUBSET SeqRange(IdOrder)

InitSave ==
    /\ backend \in Backends
    /\ raw = [ds \in DOMAIN function_map |-> SeqRange(IdOrder)]
    /\ cache = [t \in Tables \cup SchemaTables |-> {}]
    /\ clock = 1
    /\ call = [c \in {"c1"} |-> IdleCall]
    /\ batch = IdleBatch
    /\ lastStore = [by |-> None, table |-> <<None, None>>, id |-> None]
    /\ ncalls = 0
    /\ reader = IdleReader
    /\ \E P \in ProcessedSets, fn \in {"root_cause", "enrichment"}, refresh \in BOOLEAN :
            bulk = [IdleBulk EXCEPT !.pc = "save", !.mode = "save", !.dataset = "controls",
                                    !.func = fn, !.refresh = refresh, !.processed = P]
    /\ \E f \in ProgressFiles : fs = [p \in {cache_path, temp_path} |-> IF p = cache_path THEN f ELSE NoFile]
    /\ dbinit = Settled(backend)
    /\ InitIdle

NextSave ==
    \/ SaveOpen
    \/ SaveWrite
    \/ SaveFlush
    \/ SaveReplace
    \/ \E fn \in {"root_cause", "enrichment"}, refresh \in BOOLEAN :
            NewCacheManager("controls", fn, refresh)

SpecSave == InitSave /\ [][NextSave]_vars


\* the construction of the Database
OutcomeArgs == {"ok", "connection_refused", "auth_failure", "timeout", "schema_error"}

InitNew ==
    /\ backend = None
    /\ dbinit = NewDatabase
    /\ raw = [ds \in DOMAIN function_map |-> {}]
    /\ cache = [t \in Tables |-> {}]
    /\ clock = 1
    /\ call = [c \in {"c1"} |-> IdleCall]
    /\ batch = IdleBatch
    /\ lastStore = [by |-> None, table |-> <<None, None>>, id |-> None]
    /\ ncalls = 0
    /\ reader = IdleReader
    /\ bulk = IdleBulk
    /\ fs = [p \in {cache_path, temp_path} |-> NoFile]
    /\ InitIdle

NextInit ==
    \/ \E pref \in PreferredArgs : InitDb(pref)
    \/ \E ok \in BOOLEAN : PgImport(ok)
    \/ \E outcome \in OutcomeArgs \ {"schema_error"} : PgConnect(outcome)
    \/ \E outcome \in OutcomeArgs \ {"connection_refused", "auth_failure"} : PgSchema(outcome)
    \/ \E late \in BOOLEAN : PgTeardown(late)
    \/ \E ok \in BOOLEAN : SqliteConnect(ok)
    \/ \E ok \in BOOLEAN : SqliteSchema(ok)

SpecInit == InitNew /\ [][NextInit]_vars

\* the construction of the Database, then its callers
NextDb ==
    \/ NextInit
    \/ \E c \in Callers, op \in DbOpArgs, rows \in BOOLEAN : DbCall(c, op, rows)
    \/ \E c \in Callers, outcome \in {"ok", "error"} : PgRun(c, outcome)
    \/ \E c \in Callers : Acquire(c)
    \/ \E c \in Callers, ok \in BOOLEAN : ExecEnd(c, ok)
    \/ \E c \in Callers : Fetch(c)

SpecDb == InitNew /\ [][NextDb]_vars

\* the adapter on the client/server backend, statement by statement
InitAdapter ==
    /\ Init
    /\ backend = "postgres"

NextAdapter == \E st \in Statements : AdaptQuery(st)

SpecAdapter == InitAdapter /\ [][NextAdapter]_vars

\* the adapter on every statement, those it has no rewrite for included
NextForeign == \E st \in Statements \cup ForeignStatements : AdaptQuery(st)

SpecForeign == InitAdapter /\ [][NextForeign]_vars

\* one batch run of the server over three records, its chunks worked on by
\* the pool
ChunkSizeArgs == {-1, 0, 1, 2}

InitChunks ==
    /\ backend \in Backends
    /\ raw = [ds \in DOMAIN function_map |-> IF ds = "issues" THEN {"r1", "r2", "r3"} ELSE {"r1"}]
    /\ \E rows \in SUBSET PersistedRows :
            cache = [t \in Tables |-> IF t = TableName("issues", "ai_taxonomy") THEN rows ELSE {}]
    /\ clock = 1
    /\ call = [c \in {"c1"} |-> IdleCall]
    /\ batch = IdleBatch
    /\ lastStore = [by |-> None, table |-> <<None, None>>, id |-> None]
    /\ ncalls = 0
    /\ reader = IdleReader
    /\ bulk = IdleBulk
    /\ fs = [p \in {cache_path, temp_path} |-> NoFile]
    /\ dbinit = Settled(backend)
    /\ InitIdle

NextWorkers ==
    \/ \E k \in 1..MaxChunkLen : WorkerStart(k)
    \/ \E k \in 1..MaxChunkLen, outcome \in {"ok", "compute_raises", "store_fails"} :
            ProcessItem(k, "p1", outcome)
    \/ \E k \in 1..MaxChunkLen, callback \in {"none", "raises"} : Collect(k, callback)
    \/ Report

NextChunks ==
    \/ \E ds \in DatasetArgs, fn \in {"ai_taxonomy"}, ids \in IdListArgs \cup {AllIds}, force \in BOOLEAN :
            /\ batch.pc = "idle"
            /\ BatchStart(ds, fn, ids, force)
    \/ \E size \in ChunkSizeArgs : SubmitChunks(size)
    \/ NextWorkers

SpecChunks == InitChunks /\ [][NextChunks]_vars

\* a batch run with a progress callback, whose workers and callback may raise
NextMerge ==
    \/ \E ds \in DatasetArgs, ids \in IdListArgs \cup {AllIds}, force \in BOOLEAN :
            /\ batch.pc = "idle"
            /\ BatchStart(ds, "ai_taxonomy", ids, force)
    \/ \E size \in BatchSizeArgs : SubmitChunks(size)
    \/ \E k \in 1..MaxChunkLen : WorkerStart(k)
    \/ \E k \in 1..MaxChunkLen, outcome \in {"ok", "compute_raises", "store_fails"} :
            ProcessItem(k, "p1", outcome)
    \/ \E k \in 1..MaxChunkLen : WorkerRaises(k)
    \/ \E k \in 1..MaxChunkLen, callback \in {"ok", "raises"} : Collect(k, callback)
    \/ Report

SpecMerge == InitChunks /\ [][NextMerge]_vars

\* compute calls of the stub on the worker threads of a batch run
NextStub ==
    \/ \E c \in Callers, id \in IdArgs : StubCall(c, id)
    \/ \E c \in Callers : SeedRandom(c)
    \/ \E c \in Callers : Draw(c)

SpecStub == Init /\ [][NextStub]_vars

\* threads of one process calling get_db and get_resolver
NextSingle ==
    \/ \E c \in Callers, op \in {"get_db", "get_resolver"} : GetterCall(c, op)
    \/ \E c \in Callers : ResolverCheck(c)
    \/ \E c \in Callers : DbCheck(c)
    \/ \E c \in Callers : DbNew(c)
    \/ \E c \in Callers : DbAssign(c)
    \/ \E c \in Callers : DbReturn(c)
    \/ \E c \in Callers : ResolverAssign(c)
    \/ \E c \in Callers : ResolverReturn(c)

SpecSingle == Init /\ [][NextSingle]_vars

\* one worker of the pool on a chunk of up to MaxChunkLen records
ChunkIds(n) == [i \in 1..n |-> i]

InitWorker ==
    /\ backend \in Backends
    /\ clock = 1
    /\ call = [c \in {"c1"} |-> IdleCall]
    /\ lastStore = [by |-> None, table |-> <<None, None>>, id |-> None]
    /\ ncalls = 1
    /\ reader = IdleReader
    /\ bulk = IdleBulk
    /\ fs = [p \in {cache_path, temp_path} |-> NoFile]
    /\ dbinit = Settled(backend)
    /\ dbops = IdleDb
    /\ adapter = IdleAdapter
    /\ stub = IdleStub
    /\ single = IdleSingle
    /\ cache = [t \in Tables |-> {}]
    /\ \E n \in 1..MaxChunkLen :
        /\ raw = [ds \in DOMAIN function_map |-> 1..n]
        /\ batch = [IdleBatch EXCEPT !.pc = "pool", !.dataset = "issues", !.func = "ai_taxonomy",
                                     !.status = "processing", !.queue = ChunkIds(n), !.total = n]
        /\ pool = [IdlePool EXCEPT !.pc = "workers", !.batch_size = MaxChunkLen,
                                   !.todo = ChunkIds(n), !.chunks = <<Chunk(ChunkIds(n))>>]

SpecWorker == InitWorker /\ [][NextWorkers]_vars



\* ------------------------------------------------------------ properties
HotTable == TableName("issues", "ai_taxonomy")

\* the cache table a resolve call reads and writes
TableOf(c) == TableName(call[c].dataset, call[c].func)

\* caller c takes a step of resolve
Steps(c) == call[c].op = "resolve" /\ call'[c].op = "resolve" /\ call'[c] # call[c]

NotFoundError == Err("ValueError", "id_not_found")

C2_CacheHit ==
    [][\A c \in DOMAIN call :
        Steps(c) =>
            /\ (call[c].pc = "raw" /\ ~call[c].refresh
                    /\ call[c].id \in raw[call[c].dataset]) =>
                    call'[c].pc = "cache" /\ cache' = cache
            /\ (call[c].pc = "cache" /\ SelectById(TableOf(c), call[c].id) # {}) =>
                    /\ call'[c].pc = "done"
                    /\ \E r \in SelectById(TableOf(c), call[c].id) :
                            call'[c].result = OkResult("cache", r.payload[2], r.created_at)
                    /\ call'[c].nCompute = 0
                    /\ call'[c].nWrites = 0
                    /\ cache' = cache
      ]_vars

\* a call has returned from the cache a row stamped before the current time
C2_Witness ==
    \E c \in DOMAIN call :
        /\ call[c].op = "resolve" /\ call[c].pc = "done"
        /\ call[c].result.source = "cache"
        /\ call[c].result.created_at < clock
        /\ \E r \in SelectById(TableOf(c), call[c].id) :
                r.created_at = call[c].result.created_at

\* C3 (as claimed): the step that ends a computing resolve returns source
\* "computed" after exactly one compute invocation and one cache write, and
\* right after it the table holds exactly one row for the id, carrying the
\* returned payload and the returned created_at.
C3_ComputedIsStored ==
    [][\A c \in DOMAIN call :
        (Steps(c) /\ call[c].pc = "store") =>
            /\ call'[c].result.source = "computed"
            /\ call'[c].nCompute = 1
            /\ call'[c].nWrites = 1
            /\ SelectById(TableOf(c), call[c].id)' =
                    {[id |-> call[c].id,
                      payload |-> json_dumps(call'[c].result.payload),
                      created_at |-> call'[c].result.created_at]}
      ]_vars

\* C4: when the compute function raises, whatever the exception type, the
\* call ends with RuntimeError (not the ValueError that reports not-found),
\* has issued no cache write, and the step leaves every cache table as it
\* was, a row already stored for the id included; and a refresh=false call
\* that finds no row for its id goes on to the compute function.
C4_ComputeFailure ==
    [][\A c \in DOMAIN call :
        Steps(c) =>
            /\ (call[c].pc = "compute" /\ call'[c].pc = "done") =>
                    /\ call'[c].result.status = "error"
                    /\ call'[c].result.error.type = "RuntimeError"
                    /\ call'[c].result.error # NotFoundError
                    /\ call'[c].nCompute = 1
                    /\ call'[c].nWrites = 0
                    /\ cache' = cache
            /\ (call[c].pc = "cache" /\ SelectById(TableOf(c), call[c].id) = {}) =>
                    call'[c].pc = "compute"
      ]_vars

\* a refresh=true resolve has failed in the compute function and the row
\* stored before it is still in the table
C4_Witness ==
    \E c \in DOMAIN call :
        /\ call[c].op = "resolve" /\ call[c].pc = "done" /\ call[c].refresh
        /\ call[c].result.error.type = "RuntimeError"
        /\ call[c].nCompute = 1
        /\ SelectById(TableOf(c), call[c].id) # {}

\* C5 (as claimed): resolve returns source "computed" only if the table
\* then holds a row for the id with the returned payload and created_at.
C5_StoreFailureSurfaces ==
    [][\A c \in DOMAIN call :
        (Steps(c) /\ call'[c].pc = "done" /\ call'[c].result.source = "computed") =>
            \E r \in SelectById(TableOf(c), call[c].id)' :
                /\ json_loads(r.payload) = call'[c].result.payload
                /\ r.created_at = call'[c].result.created_at
      ]_vars


\* C6 (as claimed): once a resolve has returned source "computed", a
\* refresh=false resolve of the same dataset, function and id that starts
\* after that return, with nothing else in between, returns source "cache"
\* with the same payload and the same created_at, and the calls together
\* have invoked the compute function at most once.
C6_HitAfterCompute ==
    \A c, d \in DOMAIN call :
        (/\ c # d
         /\ call[c].pc = "done" /\ call[d].pc = "done"
         /\ c \in call[d].after
         /\ call[c].result.source = "computed"
         /\ ~call[d].refresh) =>
            /\ call[d].result =
                    OkResult("cache", call[c].result.payload, call[c].result.created_at)
            /\ call[c].nCompute + call[d].nCompute <= 1

\* C7 (as claimed): a refresh=true resolve on an existing record goes to
\* the compute function without a cache lookup, and when its write replaces
\* a row, the created_at it stores differs from that of the row it replaces.
C7_RefreshRestamps ==
    [][\A c \in DOMAIN call :
        Steps(c) =>
            /\ (call[c].pc = "raw" /\ call[c].refresh
                    /\ call[c].id \in raw[call[c].dataset]) =>
                    call'[c].pc = "compute"
            /\ (call[c].pc = "store" /\ call[c].refresh /\ call'[c].stored) =>
                    \A old \in SelectById(TableOf(c), call[c].id) :
                        call'[c].result.created_at # old.created_at
      ]_vars

\* C8: every cache table holds at most one row per record id.
C8_OneRowPerId ==
    \A t \in DOMAIN cache : \A r1, r2 \in cache[t] : r1.id = r2.id => r1 = r2

\* a batch run and a resolve, the only two operations so far, have both
\* written a row for r1 into the same table, which holds one row for r1
C8_Witness ==
    /\ ncalls = 2
    /\ batch.status = "completed" /\ batch.successful = 1
    /\ \E c \in DOMAIN call :
        /\ call[c].op = "resolve" /\ call[c].pc = "done" /\ call[c].stored
        /\ call[c].id = "r1"
        /\ TableOf(c) = TableName(batch.dataset, batch.func)
        /\ Cardinality(SelectById(TableOf(c), "r1")) = 1

\* C9: a resolve whose dataset is not configured, or whose function is not
\* in the dataset's function list, has ended with the ValueError of the
\* argument checks without a storage read, a storage write or a compute
\* invocation.
C9_InvalidArgument ==
    \A c \in DOMAIN call :
        (/\ call[c].op = "resolve"
         /\ IF call[c].dataset \in DOMAIN function_map
            THEN call[c].func \notin function_map[call[c].dataset]
            ELSE TRUE) =>
            /\ call[c].pc = "done"
            /\ call[c].result.status = "error"
            /\ call[c].result.error.type = "ValueError"
            /\ call[c].result.error.msg \in {"invalid_dataset", "invalid_function"}
            /\ call[c].nReads = 0
            /\ call[c].nWrites = 0
            /\ call[c].nCompute = 0

\* a resolve of a configured dataset has been rejected for its function
C9_Witness ==
    \E c \in DOMAIN call :
        /\ call[c].op = "resolve" /\ call[c].pc = "done"
        /\ call[c].dataset \in DOMAIN function_map
        /\ call[c].result = ErrResult(Err("ValueError", "invalid_function"))

\* C10 (as claimed): once two refresh=false resolves of the same existing
\* record and function have both returned a payload, the table holds
\* exactly one row for the id, that row is the result of the call whose
\* write came last, and a call that returned source "cache" returned what a
\* computing call returned (or the row an earlier run had stored).
C10_LastWriterWins ==
    (\A c \in DOMAIN call :
        /\ call[c].pc = "done" /\ ~call[c].refresh
        /\ call[c].result.status = "ok") =>
        LET entries == SelectById(HotTable, "r1")
        IN  /\ Cardinality(entries) = 1
            /\ lastStore.by # None =>
                    \A r \in entries :
                        /\ json_loads(r.payload) = call[lastStore.by].result.payload
                        /\ r.created_at = call[lastStore.by].result.created_at
            /\ \A c \in DOMAIN call :
                    call[c].result.source = "cache" =>
                        \/ \E d \in DOMAIN call :
                                /\ call[d].result.source = "computed"
                                /\ call[d].result.payload = call[c].result.payload
                                /\ call[d].result.created_at = call[c].result.created_at
                        \/ \E r \in PersistedRows :
                                /\ r.id = "r1"
                                /\ json_loads(r.payload) = call[c].result.payload
                                /\ r.created_at = call[c].result.created_at

C12_ClearCacheExact ==
    [][\A c \in DOMAIN call :
        (/\ call'[c].op = "clear_cache" /\ call'[c] # call[c]
         /\ call'[c].dataset \in DOMAIN function_map
         /\ call'[c].func \in function_map[call'[c].dataset] \cup {None}) =>
            LET ds == call'[c].dataset
                fn == call'[c].func
                id == call'[c].id
                chosen(t) == t[1] = ds /\ (fn = None \/ t[2] = fn)
                gone(t) == IF id = None THEN cache[t] ELSE {r \in cache[t] : r.id = id}
                targets == {t \in DOMAIN cache : chosen(t)}
            IN  /\ \A t \in DOMAIN cache :
                        cache'[t] = IF chosen(t) THEN cache[t] \ gone(t) ELSE cache[t]
                /\ raw' = raw
                /\ call'[c].result.status = "ok"
                /\ call'[c].result.count =
                        Cardinality(UNION {{<<t, r>> : r \in gone(t)} : t \in targets})
      ]_vars

\* the ids that have a row in a function table
CachedIds(t) == {r.id : r \in Rows(t)}

\* C13: a batch run started without force_recompute, and a bulk run started
\* without refresh, note the ids that have a row in the function's table
\* when they start; afterwards no step of the run hands such an id to the
\* compute function, and no step of the run changes the row of such an id.
C13_NoRecompute ==
    [][/\ (/\ batch' # batch /\ batch.pc # "run"
           /\ batch'.dataset \in DOMAIN function_map) =>
                batch'.had_entry = CachedIds(TableName(batch'.dataset, batch'.func))
       /\ (batch.pc = "run" /\ batch' # batch /\ ~batch.force) =>
                /\ Head(batch.queue) \notin batch.had_entry
                /\ \A id \in batch.had_entry :
                        SelectById(TableName(batch.dataset, batch.func), id)' =
                        SelectById(TableName(batch.dataset, batch.func), id)
       /\ (bulk' # bulk /\ bulk'.pc = "loop" /\ bulk.pc # "loop" /\ bulk.pc # "replace"
           /\ ~bulk'.refresh) =>
                bulk'.computed = CachedIds(TableName(bulk'.dataset, bulk'.func))
       /\ (bulk.pc = "loop" /\ bulk'.attempted # bulk.attempted /\ ~bulk.refresh) =>
                /\ Head(bulk.pending) \notin bulk.computed
                /\ cache' = cache
      ]_vars

\* a batch run without force_recompute has ended after computing one id
\* while the row another id had when the run started is still the stored one
C13_Witness ==
    /\ batch.pc = "done" /\ ~batch.force /\ batch.successful = 1
    /\ batch.had_entry # {}
    /\ \A id \in batch.had_entry :
            \E r \in SelectById(TableName(batch.dataset, batch.func), id) : r \in PersistedRows
    /\ Cardinality(Rows(TableName(batch.dataset, batch.func))) = 2

\* C14: a failure for one id of a batch or bulk run is counted and recorded
\* under that id, writes no cache row, and is followed by the next id of
\* the run if there is one; every step of a run takes exactly the first id
\* off what is left to do, and a run that is not interrupted ends with its
\* report (status completed, every scheduled id processed) and not with an
\* exception.
C14_FailureContained ==
    [][/\ (batch.pc = "run" /\ batch' # batch) =>
                /\ batch'.queue = Tail(batch.queue)
                /\ batch'.processed = batch.processed + 1
                /\ batch'.pc = IF Tail(batch.queue) = <<>> THEN "done" ELSE "run"
                /\ batch'.pc = "done" =>
                        batch'.status = "completed" /\ batch'.processed = batch'.total
                /\ batch'.failed # batch.failed =>
                        /\ batch'.failed = batch.failed + 1
                        /\ batch'.successful = batch.successful
                        /\ batch'.errors = Append(batch.errors, Head(batch.queue))
                        /\ cache' = cache
       /\ (bulk.pc = "loop" /\ bulk'.attempted # bulk.attempted) =>
                /\ bulk'.pending = Tail(bulk.pending)
                /\ bulk'.failures # bulk.failures =>
                        /\ bulk'.failures = Append(bulk.failures, Head(bulk.pending))
                        /\ bulk'.processed = bulk.processed
                        /\ cache' = cache
                        /\ bulk'.pc \in {"loop", "save"}
       /\ (bulk.pc = "end" /\ bulk'.pc = "done" /\ ~bulk'.interrupted) =>
                /\ bulk'.outcome \in {"failures", "completed"}
                /\ bulk'.pending = <<>>
      ]_vars

\* a batch run of two ids has ended with status completed, one id failed
\* and recorded, the other computed and stored
C14_Witness ==
    /\ batch.pc = "done" /\ batch.status = "completed"
    /\ batch.total = 2 /\ batch.failed = 1 /\ batch.successful = 1
    /\ Len(batch.errors) = 1
    /\ \E id \in raw[batch.dataset] \ SeqRange(batch.errors) :
            SelectById(TableName(batch.dataset, batch.func), id) # {}

\* the ids a progress file is trusted for by a run of (ds, fn, refresh)
TrustedIds(f, ds, fn, refresh) ==
    IF f.kind = "doc" /\ f.dataset = ds /\ f.ai_function = fn /\ f.refresh = refresh
    THEN {f.processed_ids[i] : i \in DOMAIN f.processed_ids}
    ELSE {}

\* a bulk run gets past its argument checks and builds its CacheManager
Loads == bulk' # bulk /\ bulk.pc \in {"idle", "done", "crashed"}
         /\ bulk'.outcome \notin {"ValueError", "no_records"}

C16_LoadTrustsMatchingOnly ==
    [][/\ Loads =>
            bulk'.processed =
                TrustedIds(fs[cache_path], bulk'.dataset, bulk'.func, bulk'.refresh)
       /\ bulk'.processed \subseteq bulk'.trusted \cup SeqRange(bulk'.attempted)
       /\ (fs'[cache_path] # fs[cache_path] /\ fs'[cache_path].kind # "absent") =>
            /\ fs'[cache_path].kind = "doc"
            /\ fs'[cache_path].dataset = bulk.dataset
            /\ fs'[cache_path].ai_function = bulk.func
            /\ fs'[cache_path].refresh = bulk.refresh
            /\ SeqRange(fs'[cache_path].processed_ids) = bulk.processed
            /\ bulk.processed \subseteq bulk.trusted \cup SeqRange(bulk.attempted)
      ]_vars

\* a run has started with an empty processed set while the progress file on
\* disk lists ids under the other refresh flag
C16_Witness ==
    /\ bulk.pc = "loop" /\ bulk.attempted = <<>>
    /\ fs[cache_path].kind = "doc"
    /\ fs[cache_path].dataset = bulk.dataset /\ fs[cache_path].ai_function = bulk.func
    /\ fs[cache_path].refresh # bulk.refresh
    /\ fs[cache_path].processed_ids # <<>>
    /\ bulk.processed = {}

\* C17 (as claimed): when a bulk run has ended with its report, or with
\* nothing to process, then if no id failed the progress file does not
\* exist, and if an id failed the progress file exists and lists exactly the
\* ids trusted at the start plus the ids that succeeded in the run.
C17_FileAtEnd ==
    (bulk.pc = "done" /\ bulk.outcome \in {"completed", "failures", "nothing"}) =>
        IF bulk.failures = <<>>
        THEN fs[cache_path].kind = "absent"
        ELSE /\ fs[cache_path].kind = "doc"
             /\ SeqRange(fs[cache_path].processed_ids) =
                    bulk.trusted \cup (SeqRange(bulk.attempted) \ SeqRange(bulk.failures))

\* C18: while CacheManager.save is under way, whatever happens next (its own
\* next step, an interrupt, the death of the process), the progress file
\* either stays what it was or becomes the complete document of the set
\* being saved, and is never an empty or partly written file.
C18_AtomicSave ==
    [][bulk.pc \in {"save", "write", "flush", "replace"} =>
            /\ \/ fs'[cache_path] = fs[cache_path]
               \/ /\ fs'[cache_path].kind = "doc"
                  /\ fs'[cache_path].dataset = bulk.dataset
                  /\ fs'[cache_path].ai_function = bulk.func
                  /\ fs'[cache_path].refresh = bulk.refresh
                  /\ SeqRange(fs'[cache_path].processed_ids) = bulk.processed
            /\ fs'[cache_path].kind \notin {"empty", "partial"}
      ]_vars

\* the process has died in the middle of writing the temporary file and the
\* progress file still holds the complete document it held before
C18_Witness ==
    /\ bulk.pc = "crashed"
    /\ fs[temp_path].kind = "partial"
    /\ fs[cache_path].kind = "doc"
    /\ fs[cache_path].processed_ids # <<>>

\* C19 (as claimed): once a bulk run has been interrupted, by
\* KeyboardInterrupt or by cancellation of its task, it passes no further id
\* to resolve; and when the interrupt leaves the run, the progress file is
\* the document that lists every id that succeeded so far.
C19_InterruptStopsDispatch ==
    [][/\ (bulk.pc \notin {"idle", "done", "crashed"} /\ (bulk.cancel \/ bulk.interrupted)) =>
                bulk'.attempted = bulk.attempted
       /\ (bulk.pc # "done" /\ bulk'.pc = "done" /\ bulk'.outcome = "interrupted") =>
                /\ fs'[cache_path].kind = "doc"
                /\ SeqRange(fs'[cache_path].processed_ids) = bulk'.processed
                /\ bulk'.trusted \cup (SeqRange(bulk'.attempted) \ SeqRange(bulk'.failures))
                        \subseteq bulk'.processed
      ]_vars

\* C20: when init_db has returned, exactly one backend is selected: the
\* client/server one only if it was the preferred one and the driver import,
\* the connection and every statement of the schema creation succeeded, the
\* embedded one only with its connection open and its schema ensured; after
\* a failure of the client/server attempt, of whatever kind, initialisation
\* is tearing the attempt down or is in (or through) the embedded
\* initialisation, and if it returns, it returns with the embedded backend;
\* the only way initialisation ends without a backend ready is an exception
\* of the embedded initialisation itself.
C20_BackendSelected ==
    /\ dbinit.pc = "ready" =>
            /\ backend \in {"postgres", "sqlite"}
            /\ backend = "postgres" =>
                    /\ normalise(dbinit.preferred) \in {"postgres", "postgresql", "pg"}
                    /\ dbinit.driver /\ dbinit.pool /\ dbinit.pg_schema
                    /\ dbinit.events \cap PgFailures = {}
            /\ backend = "sqlite" => dbinit.connection /\ dbinit.sqlite_schema
            /\ dbinit.events \cap PgFailures # {} => backend = "sqlite"
    /\ dbinit.events \cap PgFailures # {} =>
            /\ dbinit.pc \in {"pg_teardown", "sqlite_connect", "sqlite_schema", "ready", "raised"}
            /\ backend # "postgres"
    /\ dbinit.pc = "raised" => dbinit.error \in {"embedded_connect", "embedded_schema"}
    /\ backend = None => dbinit.pc \notin {"ready", "sqlite_schema"}

\* initialisation has returned with the embedded backend after the schema
\* creation of the client/server backend failed
C20_Witness ==
    /\ dbinit.pc = "ready" /\ backend = "sqlite"
    /\ "schema_error" \in dbinit.events
    /\ dbinit.driver /\ ~dbinit.pool /\ ~dbinit.loop

\* ---------------------------------------------------------------------
\* C21: once init_db has selected a backend, the selection stays for the
\* rest of the process.  A failing execute, executemany, fetchone or
\* fetchall raises to its caller; the selection, and what init_db set up
\* for it, is after the failure what it was before, and no step goes from
\* the client/server backend to the embedded one or back.
C21_SelectionFixed ==
    [][/\ backend # None => backend' = backend
       /\ \A c \in Callers :
            (dbops.thr[c].pc # "done" /\ dbops'.thr[c].pc = "done"
                /\ dbops'.thr[c].result = "raised")
            => /\ backend' = backend
               /\ dbinit' = dbinit
               /\ dbops'.lock # c]_vars

\* a statement has failed on the client/server backend, which init_db had
\* selected, and a later statement has run on it
C21_Witness ==
    /\ backend = "postgres"
    /\ dbinit.pc = "ready"
    /\ \E c, d \in Callers :
        /\ c # d
        /\ dbops.thr[c].pc = "done" /\ dbops.thr[c].result = "raised"
        /\ dbops.thr[d].pc = "done" /\ dbops.thr[d].result = "returned"

\* ---------------------------------------------------------------------
\* C22: on the embedded backend no two statements are active on the single
\* connection at the same time: a caller's statement, the fetching of its
\* rows included, completes before another caller's statement starts.
C22_OneStatementAtATime ==
    backend = "sqlite" => Cardinality(dbops.active) <= 1

\* ---------------------------------------------------------------------
\* the key field of the dataset that owns a table
OwnerKey(table) == config_key_field[sql_name[table][1]]

\* INSERT INTO table (cols) VALUES ($1, ..., $n)
PlainInsert(st) ==
    <<"INSERT", " ", "INTO", " ", st.table>> \o st.gap \o <<"(">> \o Listed(st.cols)
        \o <<")", " ", "VALUES", " ", "(">> \o Holders(st.n, Marker) \o <<")">>

RECURSIVE SetExcluded(_)
\* c1 = EXCLUDED.c1, c2 = EXCLUDED.c2, ...
SetExcluded(cols) ==
    IF cols = <<>> THEN <<>>
    ELSE <<Head(cols), " ", "=", " ", "EXCLUDED", ".", Head(cols)>>
            \o (IF Tail(cols) = <<>> THEN <<>> ELSE <<",", " ">> \o SetExcluded(Tail(cols)))

Quoted(query, i) == Cardinality({j \in 1..(i - 1) : query[j] = "'"}) % 2 = 1

\* the placeholders of a query
Placeholders(query) == {i \in DOMAIN query : query[i] = "?" /\ ~Quoted(query, i)}

Created(ds, fn) == ds \in DOMAIN ai_functions /\ TableName(ds, fn) \in SchemaTables

\* the key column the resolver and the batch processor use for a dataset
\* is the primary key the schema declares
KeyMatches(ds) == ds \in DOMAIN config_key_field /\ key_fields[ds] = config_key_field[ds]

\* C26: for every dataset and function that resolve, get_all_results,
\* clear_cache or a batch run has accepted, schema creation has made the
\* table dataset_function, and the key column the operation uses is the
\* primary key of that table and of the dataset's raw table.
C26_SchemaCoversOperations ==
    /\ \A c \in DOMAIN call :
        (call[c].op \in {"resolve", "clear_cache"}
            /\ call[c].dataset \in DOMAIN function_map
            /\ call[c].func \in function_map[call[c].dataset])
        => Created(call[c].dataset, call[c].func) /\ KeyMatches(call[c].dataset)
    /\ (batch.pc # "idle" /\ batch.dataset \in DOMAIN function_map)
        => Created(batch.dataset, batch.func) /\ KeyMatches(batch.dataset)
    /\ (reader.pc # "idle" /\ reader.dataset \in DOMAIN function_map)
        => \A fn \in function_map[reader.dataset] :
                Created(reader.dataset, fn) /\ KeyMatches(reader.dataset)

\* ---------------------------------------------------------------------
\* what went wrong in a finished resolve, from what the call did
FailureKind(c) ==
    LET cur == call[c]
    IN  IF ValidateArgs(cur.dataset, cur.func) # NoError THEN "invalid_argument"
        ELSE IF cur.raw_result = None THEN "not_found"
        ELSE IF cur.nCompute = 1 /\ cur.payload = None THEN "compute_failure"
        ELSE IF cur.nWrites = 1 /\ ~cur.stored THEN "storage_failure"
        ELSE "none"

\* routers/issues.py 75-84: how the route reports what resolve raised
http_status(result) ==
    IF result.status = "ok" THEN 200
    ELSE IF result.error.type = "ValueError" THEN 404
    ELSE 502

\* C27: every failure of resolve is reported, as one of invalid-argument,
\* not-found, compute-failure and storage-failure, and the caller can tell
\* the kinds apart from the error: an unknown dataset or function is not
\* reported in the way a missing record is, nor is a compute failure.
C27_ErrorKinds ==
    \A c \in DOMAIN call :
        (call[c].op = "resolve" /\ call[c].pc = "done") =>
            LET kind == FailureKind(c)
                res == call[c].result
            IN  /\ kind # "none" <=> res.status = "error"
                /\ kind \in {"invalid_argument", "compute_failure"} =>
                        /\ res.error.type # NotFoundError.type
                        /\ http_status(res) # http_status(ErrResult(NotFoundError))
                /\ kind = "not_found" => res.error = NotFoundError

\* ---------------------------------------------------------------------
\* the run has returned a report
Reported == batch.pc = "done" /\ batch.status \in {"success", "completed"}

Count(s, x) == Cardinality({i \in DOMAIN s : s[i] = x})

RECURSIVE Flat(_)
\* the ids of the chunks, one chunk after the other
Flat(chunks) == IF chunks = <<>> THEN <<>> ELSE Head(chunks).ids \o Flat(Tail(chunks))

\* C29: for a chunk size of at least 1 the chunks are consecutive slices
\* of the filtered list, each of chunk-size ids but the last, which may be
\* shorter, and none empty, so that every filtered id is in exactly one
\* chunk; a worker goes through the ids of its chunk in list order; in a
\* finished run every filtered id was computed once and upserted at most
\* once, once when its computation and its write succeeded.  A run with a
\* chunk size of 0 or less ends with an error.
C29_Chunking ==
    /\ pool.pc # "idle" /\ pool.batch_size >= 1 =>
        /\ Flat(pool.chunks) = pool.todo
        /\ \A k \in DOMAIN pool.chunks :
            LET ch == pool.chunks[k]
            IN  /\ ch.ids # <<>>
                /\ k < Len(pool.chunks) => Len(ch.ids) = pool.batch_size
                /\ Len(ch.ids) <= pool.batch_size
                /\ ch.done = SubSeq(ch.ids, 1, Len(ch.done))
        /\ Reported =>
            \A i \in DOMAIN pool.todo :
                /\ Count(pool.computed, pool.todo[i]) = 1
                /\ Count(pool.written, pool.todo[i]) <= 1
    /\ pool.pc # "idle" /\ pool.batch_size <= 0 /\ batch.pc = "done" => batch.status = "ValueError"

\* ---------------------------------------------------------------------
\* C30: the tally of a worker holds at most error_limit messages however
\* many ids of its chunk fail, while its failed count counts every failure.
C30_TallyBounded ==
    \A k \in DOMAIN pool.chunks :
        LET ch == pool.chunks[k]
        IN  /\ Len(ch.tally.errors) <= error_limit
            /\ ch.tally.failed = Len(ch.done) - ch.tally.successful

\* ------------------------------------------------------------------ C31
RECURSIVE Merged(_, _)
Merged(chunks, k) ==
    IF k = 0 THEN [processed |-> 0, successful |-> 0, failed |-> 0]
    ELSE LET rest == Merged(chunks, k - 1)
             t == chunks[k].tally
         IN  [processed |-> rest.processed + t.processed,
              successful |-> rest.successful + t.successful,
              failed |-> rest.failed + t.failed]

MergedChunks == {k \in DOMAIN pool.chunks : pool.chunks[k].state = "collected" /\ ~pool.chunks[k].raised}

\* C31: a run whose collection has ended has status completed, every chunk
\* collected and the tallies of all chunks whose future returned merged into
\* the totals, whichever futures or callbacks raised; the progress callback
\* has been called once per merged chunk, the last time with the totals as
\* they stand
C31_MergeContinues ==
    /\ pool.pc \notin {"idle", "workers"} =>
            /\ batch.status = "completed"
            /\ \A k \in DOMAIN pool.chunks : pool.chunks[k].state = "collected"
            /\ Totals(batch) = Merged(pool.chunks, Len(pool.chunks))
    /\ Len(pool.calls) = Cardinality(MergedChunks)
    /\ pool.calls # <<>> => pool.calls[Len(pool.calls)] = Totals(batch)

C31_Witness ==
    /\ pool.pc = "done"
    /\ Len(pool.chunks) = 3
    /\ pool.chunks[1].raised
    /\ batch.errors = <<"future", "callback">>
    /\ Len(pool.calls) = 2
    /\ batch.processed = 2

\* ------------------------------------------------------------------ C32
\* the inserts the adapter does not support
Unsupported(st) ==
    /\ st.kind \in {"REPLACE", "IGNORE"}
    /\ \/ get_key_field_for_table(st.table) = None
       \/ st.kind = "REPLACE" /\ st.cols = <<>>

\* the statement was rewritten and says nothing about conflicts any more
LostMeaning ==
    /\ adapter.input.kind \in {"REPLACE", "IGNORE"}
    /\ adapter.sql # adapter.query
    /\ find(upper(adapter.sql), <<"OR", " ", adapter.input.kind>>, 1) = 0
    /\ find(adapter.sql, <<"ON", " ", "CONFLICT">>, 1) = 0

\* C32: no unsupported insert comes out of the adapter as a statement for
\* the backend, and no statement that comes out has lost its
\* replace-on-conflict or ignore-on-conflict meaning
C32_UnsupportedRejected ==
    adapter.pc = "adapted" => ~Unsupported(adapter.input) /\ ~LostMeaning

\* the rewrite of an unsupported insert that the backend is sent
C32_PlainInsertSent ==
    adapter.pc = "adapted" /\ Unsupported(adapter.input) /\ LostMeaning

\* where the claim holds: every supported insert keeps its meaning
C32_SupportedKeepMeaning ==
    adapter.pc = "adapted" /\ ~Unsupported(adapter.input) => ~LostMeaning

\* ------------------------------------------------------------------ C33
\* the record ids of the run's dataset without a row in the run's table
Uncached(b) == raw[b.dataset] \ {r.id : r \in Rows(TableName(b.dataset, b.func))}

\* C33: a bulk run without refresh that has returned, uninterrupted and with
\* no failure ("nothing to process" included), leaves a row in the function
\* table for every record id of the dataset
C33_AllCachedAfterRun ==
    bulk.pc = "done" /\ ~bulk.refresh /\ bulk.outcome \in {"nothing", "completed"}
        => Uncached(bulk) = {}

\* the run that finds nothing to process because of the progress file alone
C33_SkippedByProgressFile ==
    /\ bulk.pc = "done" /\ ~bulk.refresh /\ bulk.outcome = "nothing"
    /\ bulk.trusted # {}
    /\ Uncached(bulk) = bulk.trusted

\* where the claim holds: a run that trusted no progress file
C33_HoldsWithoutProgress ==
    bulk.pc = "done" /\ ~bulk.refresh /\ bulk.outcome \in {"nothing", "completed"}
        /\ bulk.trusted = {} => Uncached(bulk) = {}

\* ------------------------------------------------------------------ C34
\* the ids of the run for which resolve returned
Succeeded(b) == SeqRange(b.attempted) \ SeqRange(b.failures)

\* the files that hold a document of the run's configuration
OwnFiles ==
    {p \in DOMAIN fs : /\ fs[p].kind \in {"doc", "partial"}
                       /\ fs[p].dataset = bulk.dataset
                       /\ fs[p].ai_function = bulk.func
                       /\ fs[p].refresh = bulk.refresh}

FailedNotMarked ==
    /\ SeqRange(bulk.failures) \cap bulk.processed = {}
    /\ bulk.processed \subseteq bulk.trusted \cup Succeeded(bulk)
    /\ \A p \in OwnFiles :
            /\ SeqRange(fs[p].processed_ids) \cap SeqRange(bulk.failures) = {}
            /\ SeqRange(fs[p].processed_ids) \subseteq bulk.trusted \cup Succeeded(bulk)

\* a run starts after a run of the same configuration, the raw store and
\* the function table as that run left them
RunAgain ==
    /\ bulk.pc \in {"done", "crashed"}
    /\ bulk' # bulk
    /\ bulk'.dataset = bulk.dataset /\ bulk'.func = bulk.func /\ bulk'.refresh = bulk.refresh

\* C34: an id that failed in a bulk run is not in the processed set and not
\* in a progress file of the run's configuration, whose ids are ids the run
\* loaded from such a file or ids for which resolve returned; the next run
\* of the same configuration has every failed id among its pending ids
C34_FailedRetried ==
    /\ []FailedNotMarked
    /\ [][RunAgain => SeqRange(bulk.failures) \subseteq SeqRange(bulk'.pending)]_vars

\* a run that failed on every id has saved a progress file that lists none
C34_Witness ==
    /\ bulk.pc = "done" /\ bulk.outcome = "failures"
    /\ bulk.failures = <<"r1", "r2", "r3", "r4">>
    /\ fs[cache_path] = Doc("controls", "root_cause", FALSE, <<>>)
    /\ fs[temp_path] = NoFile

\* ------------------------------------------------------------------ C35
\* every cache entry is for an id of the raw store of its dataset, the
\* entries aside that were there at the start and whose raw record an
\* earlier process deleted
CacheWithinRaw ==
    \A t \in DOMAIN cache : \A r \in cache[t] \ PersistedRows : r.id \in raw[t[1]]

\* resolve goes past its raw lookup only for an id the raw store holds at
\* that moment, and computes and stores only after it has
ResolveLooksUp ==
    \A c \in DOMAIN call :
        /\ call[c].pc = "raw" /\ call'[c].pc \in {"cache", "compute"}
                => call[c].id \in raw[call[c].dataset]
        /\ (/\ call[c].op = "resolve" /\ call'[c].op = "resolve"
            /\ call'[c].nCompute > call[c].nCompute \/ call'[c].nWrites > call[c].nWrites)
                => call[c].raw_result = "row"

\* a batch run queues only ids the raw store holds when it looks them up,
\* and computes and stores only the id at the head of its queue
BatchLooksUp ==
    /\ batch.pc \in {"idle", "done"} /\ batch'.pc = "run"
            => SeqRange(batch'.queue) \subseteq raw[batch'.dataset]
    /\ batch.pc = "run" /\ batch' # batch
            => /\ batch'.queue = Tail(batch.queue)
               /\ \A t \in DOMAIN cache : \A r \in cache'[t] \ cache[t] : r.id = Head(batch.queue)

\* C35: resolve and a batch run (ids given or all) compute and store only for
\* ids whose raw record they found, and as long as no raw record has been
\* deleted every cache entry is for an id of the raw store
C35_OnlyExistingIds ==
    /\ [][ResolveLooksUp /\ BatchLooksUp]_vars
    /\ [](raw = StartRaw => CacheWithinRaw)

\* resolve has refused an id without a raw record and a batch run given ids
\* has stored a row for the one id it found
C35_Witness ==
    /\ call["c1"].id = "r2"
    /\ call["c1"].result.error = Err("ValueError", "id_not_found")
    /\ call["c1"].nCompute = 0
    /\ batch.pc = "done" /\ batch.total = 1 /\ batch.successful = 1
    /\ raw["issues"] = {"r1"}
    /\ {r.id : r \in cache[<<"issues", "ai_taxonomy">>]} = {"r1"}

\* ------------------------------------------------------------------ C36
\* what a compute call for the id returns when no other call runs
Alone(id) == <<NextValue(Generator(hash_val[id], 0)), NextValue(Generator(hash_val[id], 1))>>

\* C36: every compute call of the stub returns the payload that a call for
\* its id returns alone, whatever runs on the other threads
C36_PayloadOfIdAlone ==
    \A c \in Callers : stub.thr[c].pc = "done" => stub.thr[c].values = Alone(stub.thr[c].id)

\* a call for r1 that returned a value drawn after the other thread's seeding
C36_ForeignDraw ==
    /\ stub.thr["c1"].pc = "done" /\ stub.thr["c1"].id = "r1"
    /\ stub.thr["c2"].id = "r2"
    /\ stub.thr["c1"].values # Alone("r1")

\* where the claim holds: calls that run one after the other
C36_HoldsInSequence ==
    \A c \in Callers :
        stub.thr[c].pc = "done" /\ (\A d \in Callers \ {c} : stub.thr[d].pc = "idle")
            => stub.thr[c].values = Alone(stub.thr[c].id)

\* ------------------------------------------------------------------ C37
\* the callers of an operation that have returned
Returned(op) == {c \in Callers : single.thr[c].pc = "done" /\ single.thr[c].op = op}

\* C37: at most one Database and at most one FunctionResolver are ever
\* constructed, and all callers of get_db, and all callers of get_resolver,
\* receive the same object
C37_OneInstance ==
    /\ single.databases <= 1
    /\ Len(single.resolvers) <= 1
    /\ \A op \in {"get_db", "get_resolver"} : \A c, d \in Returned(op) :
            single.thr[c].result = single.thr[d].result

\* two first calls of get_db that each constructed a Database and returned
\* different objects
C37_TwoDatabases ==
    /\ single.databases = 2
    /\ Returned("get_db") = Callers
    /\ single.thr["c1"].result # single.thr["c2"].result

\* where the claim holds: calls made one after the other by one thread
C37_HoldsOnOneThread ==
    (\E c \in Callers : single.thr[c].pc = "idle") => C37_OneInstance

\* ------------------------------------------------------------------ C38
\* the position of an id in the order of the keys
Rank(id) == CHOOSE i \in DOMAIN IdOrder : IdOrder[i] = id

\* ascending, no id twice
StrictlyAscending(ids) == \A i, j \in DOMAIN ids : i < j => Rank(ids[i]) < Rank(ids[j])

\* C38: a CacheManager constructed on the path of a saved progress file, for
\* the configuration saved, has the processed set that was saved; and the
\* list of a saved file is in ascending order without duplicates
C38_SaveLoadRoundTrip ==
    /\ bulk.pc = "constructed" /\ bulk.outcome = "same" => bulk.trusted = bulk.processed
    /\ bulk.pc \in {"saved", "constructed"} =>
            /\ fs[cache_path].kind = "doc"
            /\ SeqRange(fs[cache_path].processed_ids) = bulk.processed
            /\ StrictlyAscending(fs[cache_path].processed_ids)

C38_Witness ==
    /\ bulk.pc = "constructed" /\ bulk.outcome = "same" /\ bulk.refresh
    /\ bulk.processed = {"r1", "r3", "r4"}
    /\ bulk.trusted = {"r1", "r3", "r4"}
    /\ fs[cache_path].processed_ids = <<"r1", "r3", "r4">>

\* ------------------------------------------------------------------ C39
\* C39: once the embedded backend is selected the pool and the event loop
\* of the client/server backend are unset, and a Database whose
\* initialisation has returned has the pool and the loop of the
\* client/server backend if that one is selected and the connection of the
\* embedded one if that one is
C39_BackendResources ==
    /\ backend = "sqlite" => ~dbinit.pool /\ ~dbinit.loop
    /\ dbinit.pc = "ready" =>
            /\ backend = "postgres" => dbinit.pool /\ dbinit.loop
            /\ backend = "sqlite" => dbinit.connection

\* the embedded backend in use with a pool of the client/server backend set
C39_PoolLeftSet ==
    /\ dbinit.pc = "ready" /\ backend = "sqlite"
    /\ dbinit.connection /\ dbinit.pool /\ ~dbinit.loop

\* where the claim holds: every initialisation in which no wait timed out
C39_HoldsWithoutTimeout ==
    "timeout" \notin dbinit.events => C39_BackendResources

====
